---- MODULE Spec2Model ----
(***************************************************************************)
(* Listing ingestion pipeline of pistonheads_scraper: the storage layer    *)
(* (db_helper.py, second revision, lines 422-706), the Cazoo harvester     *)
(* (scrapers/cazoo_scraper.py) and the orchestrator (run_all.py).          *)
(*                                                                         *)
(* The specifications of the module:                                        *)
(*   SinkSpec    - save_to_raw_source run statement by statement, call     *)
(*                 after call, by one session of the MySQL server;         *)
(*   ConcSpec    - the same by two sessions, each on its own pooled        *)
(*                 connection and in its own transaction;                  *)
(*   BatchSpec   - one session saving batches of a hundred records;         *)
(*   HarvestSpec - run_cazoo's harvest loop and _harvest_links;            *)
(*   OrchSpec    - run_all.main, cycle after cycle, with process crashes;  *)
(*   PoolSpec    - the operations that check a connection out of a pool,   *)
(*                 and the tables the standalone scrapers provision;       *)
(*   FlattenSpec - run_all.flatten over nested records;                    *)
(*   StatsSpec   - get_stats_by_source over stored tables;                 *)
(*   RunSpec     - run_cazoo from its call to its return: the harvest and  *)
(*                 the detail loop.                                        *)
(*                                                                         *)
(* Conventions.  A Python dict is a function whose DOMAIN is its key set;  *)
(* a missing key is a key outside the DOMAIN.  A URL is the sequence of    *)
(* its characters, so that str.split on "?" and "#" is computed.  The      *)
(* raw_source table is the bag of its rows without the AUTO_INCREMENT id,  *)
(* which no statement of the program reads.                                *)
(***************************************************************************)
EXTENDS Integers, Sequences, FiniteSets, Bags, TLC

(***************************************************************************)
(* Bounds of the model.                                                    *)
(***************************************************************************)
MaxTime == 1       \* the server clock runs over 0..MaxTime
MaxBatch == 2      \* longest record list handed to save_to_raw_source
MaxCalls == 2      \* save_to_raw_source calls of the single session of SinkSpec
ConcBatch == 1     \* longest record list of a session of ConcSpec
ConcCalls == 1     \* save_to_raw_source calls per session of ConcSpec
MaxStart == 2      \* largest start_page handed to run_cazoo
MaxPages == 3      \* largest page budget (batch_pages, max_pages) of a harvest
MaxRuns == 2       \* processes of run_all.py started one after another
MaxRefused == 1    \* calls of PoolSpec that find their pool exhausted
MaxUrls == 11      \* longest URL list handed to run_cazoo
MaxPhRuns == 2     \* processes of pistonheads_scraper.py started in a row
MaxFound == 1      \* most records a page of the standalone main yields

(***************************************************************************)
(* Program constants.                                                      *)
(***************************************************************************)
CommitEvery == 50
BatchSize == 100
PagesPerRun == 3
DefaultRetries == 3
PhBatchPages == 3

VARIABLES
    \* ---- MySQL server ----
    table,           \* committed rows of raw_source (a bag of rows)
    txn,             \* per session: the uncommitted writes of its transaction
    now,             \* NOW() / CURRENT_TIMESTAMP
    \* ---- db_helper module state ----
    pool,            \* FALSE when create_pool failed (pool = None)
    \* ---- one save_to_raw_source frame per session ----
    pc, records, source, i, cn,
    inserted_count, updated_count, error_count, calls

sinkVars == <<table, txn, now, pool, pc, records, source, i, cn,
              inserted_count, updated_count, error_count, calls>>

VARIABLES
    \* ---- the Cazoo site and the requests made to it ----
    site,            \* search page number -> what a fetch of it returns
    fetched,         \* the search pages requested so far, with the links found
    \* ---- run_cazoo frame ----
    hpc, start_page, batch_pages, max_per_page, page_num, urls,
    car_listing_urls,
    \* ---- _harvest_links frame ----
    caller, search_url, max_pages, page, consecutive_empty, all_links,
    unique_links

harvVars == <<site, fetched, hpc, start_page, batch_pages, max_per_page,
              page_num, urls,
              car_listing_urls, caller, search_url, max_pages, page,
              consecutive_empty, all_links, unique_links>>

VARIABLES
    \* ---- the progress file and the run_all.main frame ----
    file,            \* scraping_progress.json: Missing or the dict it holds
    progress,        \* the dict main loaded and mutates
    opc, section, main_start_page, main_end_page, rows, flat,
    runs,            \* processes started so far
    \* ---- history of the runs ----
    save_status,     \* how the section's last save_to_raw_source call ended
    successes,       \* per source: the sections that advanced progress
    persisted,       \* per source: those of them that save_progress wrote
    advanced,        \* per source: range and batch of this run's advance,
                     \* when the save before it stored the whole batch
    interrupted      \* the same of a run that ended before save_progress

orchVars == <<file, progress, opc, section, main_start_page, main_end_page,
              rows, flat, runs, save_status, successes, persisted, advanced,
              interrupted>>

VARIABLES
    \* ---- the connection pools and the tables of the standalone scrapers ----
    free,            \* per pool: the connections waiting in its queue
    holder,          \* the operation that holds a connection, or "none"
    connected,       \* is_connected() of the connection held
    refused,         \* calls that found their pool exhausted
    legacy           \* raw_pistonheads_db and raw_aa_db

poolVars == <<free, holder, connected, refused, legacy>>

VARIABLES
    \* ---- run_all.flatten applied to the rows of a scraper, one at a time ----
    nested,          \* the record handed to flatten
    flattened,       \* what flatten returned for it
    fpc              \* "call" before flatten runs, "returned" after

flatVars == <<nested, flattened, fpc>>

VARIABLES
    \* ---- the detail loop of run_cazoo ----
    batch_size,      \* the batch_size argument of run_cazoo
    dpc,             \* "idle", "fetch", "pause", "final" or "returned"
    di,              \* i of `for i, url in enumerate(car_listing_urls, 1)`
    drows,           \* rows
    result,          \* what run_cazoo returned
    \* ---- history of the detail loop ----
    fetch_log,       \* the URLs handed to extract_cazoo_listing, in order
    naps,            \* the asyncio.sleep(2) calls of the loop
    extracted,       \* the records extract_cazoo_listing delivered, in order
    handed           \* the lists handed to save_to_leads, in order

detVars == <<batch_size, dpc, di, drows, result, fetch_log, naps, extracted,
             handed>>

VARIABLES
    \* ---- get_stats_by_source ----
    stats,           \* the dict the call returned
    spc              \* "idle", "call" or "returned"

statVars == <<stats, spc>>

VARIABLES
    \* ---- the standalone main of pistonheads_scraper.py ----
    ph_file,         \* scrape_progress.json: whether it exists, and its dict
    ph_progress,     \* the dict main loaded and mutates
    ph_pc,           \* "stopped" or "loop"
    ph_start_page, total_scraped, end_page, current_page,
    all_results,     \* len(all_results)
    ph_runs,         \* processes started so far
    page_log         \* this run's pages and how each went, in order

pageVars == <<ph_file, ph_progress, ph_pc, ph_start_page, total_scraped,
              end_page, current_page, all_results, ph_runs, page_log>>

VARIABLES
    \* ---- the import of db_helper.py: create_pool and what follows ----
    retries, attempt,
    bpc,             \* "import", "attempt", "sleep" or "done"
    tried,           \* MySQLConnectionPool(...) calls so far
    slept,           \* time.sleep(2) calls so far
    raised,          \* whether create_pool left by its raise
    op_result        \* the last helper called without a pool, and its value

bootVars == <<retries, attempt, bpc, tried, slept, raised, op_result>>

auxVars == <<poolVars, flatVars, detVars, statVars, pageVars, bootVars>>

vars == <<sinkVars, harvVars, orchVars, auxVars>>

----------------------------------------------------------------------------
(***************************************************************************)
(* Values.                                                                 *)
(***************************************************************************)
Null == "NULL"                       \* Python None, SQL NULL
EmptyDict == [k \in {} |-> Null]     \* {}
EmptyStr == <<>>                     \* '' as a character sequence
NoRow == <<>>

\* dict.get(k, default)
Get(d, k, default) == IF k \in DOMAIN d THEN d[k] ELSE default

\* s.split(sep, 1)[0]: the characters before the first sep
RECURSIVE SplitFirst(_, _)
SplitFirst(s, sep) ==
    IF s = <<>> \/ Head(s) = sep THEN <<>>
    ELSE <<Head(s)>> \o SplitFirst(Tail(s), sep)

\* full_url.split("?", 1)[0].split("#", 1)[0]
CleanUrl(url) == SplitFirst(SplitFirst(url, "?"), "#")

\* listing URLs used as inputs: "a", "a?r", "a#f", "b"
Ua == <<"a">>
UaQ == <<"a", "?", "r">>
UaF == <<"a", "#", "f">>
Ub == <<"b">>
UbQ == <<"b", "?", "x">>

\* what a fetch of a search page returns: res.success and, of res.html, the
\* hrefs that pass the listing-link tests of lines 110-112
FetchFailed == [success |-> FALSE, hrefs |-> <<>>]
PageResponses ==
    {FetchFailed,
     [success |-> TRUE, hrefs |-> <<>>],
     [success |-> TRUE, hrefs |-> <<Ua, Ub, UbQ>>],
     [success |-> TRUE, hrefs |-> <<Ub, UaF>>]}
SitePages == MaxStart + MaxPages - 1

\* records as the extractors build them: {"listing_url":…, "vehicle":{…}}
RecFord == [listing_url |-> Ua, vehicle |-> [make |-> "Ford"]]
RecBare == [listing_url |-> Ua]
RecFordQ == [listing_url |-> UaQ, vehicle |-> [make |-> "Ford"]]
RecNoUrl == [vehicle |-> [make |-> "Ford"]]

SinkRecords == {RecFord, RecBare, RecFordQ, RecNoUrl}
SinkSources == {"cazoo"}
Sessions == {"s1", "s2"}

RECURSIVE SeqsUpTo(_, _)
SeqsUpTo(S, n) ==
    IF n = 0 THEN {<<>>}
    ELSE LET shorter == SeqsUpTo(S, n - 1)
         IN shorter \cup {Append(q, x) : q \in shorter, x \in S}

SinkBatches == SeqsUpTo(SinkRecords, MaxBatch)
ConcRecords == {RecFord, RecFordQ, RecNoUrl}
ConcSources == {"cazoo"}
ConcBatches == SeqsUpTo(ConcRecords, ConcBatch)

----------------------------------------------------------------------------
(***************************************************************************)
(* The raw_source table (db_helper.py 482-502).                            *)
(***************************************************************************)
\* utf8mb4_unicode_ci compares case-insensitively; the model's URLs are
\* lower case, so only the source names fold.
Fold(s) ==
    CASE s = "Cazoo" -> "cazoo"
      [] s = "PistonHeads" -> "pistonheads"
      [] s = "AA" -> "aa"
      [] OTHER -> s

\* UNIQUE KEY unique_listing (source, listing_url)
KeyOf(src, url) == <<Fold(src), url>>
RowKey(row) == KeyOf(row.source, row.listing_url)

\* make … GENERATED ALWAYS AS (JSON_UNQUOTE(JSON_EXTRACT(raw_json, '$.vehicle.make')))
MakeColumn(row) == Get(Get(row.raw_json, "vehicle", EmptyDict), "make", Null)

EmptyTxn == [del |-> EmptyBag, add |-> EmptyBag]

\* what a session reads: the committed rows with its own writes applied
ViewOf(tbl, tx) == (tbl (-) tx.del) (+) tx.add
View(p) == ViewOf(table, txn[p])

\* a server without row locks
Locked_Never(p, key) == FALSE

\* InnoDB row locks: a key written by another open transaction
Locked(p, key) ==
    \E q \in Sessions \ {p} :
        \E r \in BagToSet(txn[q].add (+) txn[q].del) : RowKey(r) = key

\* two faulty statements: a plain INSERT without the unique key, and an
\* update that stamps created_at (the SQL of the first revision, line 403)
UpsertRow_AlwaysInsert(view, src, url, json, t) ==
    [old |-> NoRow,
     new |-> [source |-> src, listing_url |-> url, raw_json |-> json,
              created_at |-> t, updated_at |-> t]]

UpsertRow_TouchCreated(view, src, url, json, t) ==
    LET matches == {r \in BagToSet(view) : RowKey(r) = KeyOf(src, url)}
    IN  IF matches = {}
        THEN [old |-> NoRow,
              new |-> [source |-> src, listing_url |-> url, raw_json |-> json,
                       created_at |-> t, updated_at |-> t]]
        ELSE LET old == CHOOSE r \in matches : TRUE
             IN  [old |-> old,
                  new |-> [old EXCEPT !.raw_json = json, !.created_at = t]]

\* INSERT INTO raw_source (source, listing_url, raw_json) VALUES (…)
\* ON DUPLICATE KEY UPDATE raw_json = VALUES(raw_json), updated_at = NOW()
\* as one statement: the row it replaces (NoRow on insert) and the row it leaves.
UpsertRow(view, src, url, json, t) ==
    LET matches == {r \in BagToSet(view) : RowKey(r) = KeyOf(src, url)}
    IN  IF matches = {}
        THEN [old |-> NoRow,
              new |-> [source |-> src, listing_url |-> url, raw_json |-> json,
                       created_at |-> t, updated_at |-> t]]
        ELSE LET old == CHOOSE r \in matches : TRUE
             IN  [old |-> old,
                  new |-> [old EXCEPT !.raw_json = json, !.updated_at = t]]

\* cur.rowcount of that statement: 1 inserted, 2 changed, 0 set to its current values
RowCount(w) ==
    IF w.old = NoRow THEN 1 ELSE IF w.new = w.old THEN 0 ELSE 2

\* the statement's write recorded in the session's transaction
ApplyWrite(tx, w) ==
    IF w.old = NoRow
    THEN [tx EXCEPT !.add = @ (+) SetToBag({w.new})]
    ELSE IF BagIn(w.old, tx.add)
         THEN [tx EXCEPT !.add = (@ (-) SetToBag({w.old})) (+) SetToBag({w.new})]
         ELSE [del |-> tx.del (+) SetToBag({w.old}),
               add |-> tx.add (+) SetToBag({w.new})]

----------------------------------------------------------------------------
(***************************************************************************)
(* The progress file and the pure helpers of run_all.py.  A field that     *)
(* holds text is a string; last_run is <<>> for None and <<t>> for the     *)
(* timestamp t.                                                            *)
(***************************************************************************)
Sources == <<"pistonheads", "aa", "cazoo">>
SourceNames == {"pistonheads", "aa", "cazoo"}

\* the source argument of the three save_to_leads calls of main
Label(s) ==
    CASE s = "pistonheads" -> "PistonHeads"
      [] s = "aa" -> "AA"
      [] OTHER -> "Cazoo"

ZeroEntry ==
    [last_page |-> 0, total_pages_scraped |-> 0, total_listings |-> 0,
     last_run |-> <<>>]
DefaultProgress == [s \in SourceNames |-> ZeroEntry]
\* the file: whether Path.exists(), whether json.load() accepts its bytes, and
\* the dict json.load() returns when it does
NoFile == [exists |-> FALSE, parses |-> FALSE, data |-> DefaultProgress]

\* lines 19-24: json.load raising is passed over, and so is a missing file
load_progress(f) ==
    IF f.exists /\ f.parses THEN f.data ELSE DefaultProgress
\* the file once open(PROGRESS_FILE, 'w') and json.dump have run to the end
save_progress(pr) == [exists |-> TRUE, parses |-> TRUE, data |-> pr]
\* the file between open(PROGRESS_FILE, 'w'), which truncates it, and the
\* last byte of json.dump: empty, or the beginning of a JSON document
TornFile == [exists |-> TRUE, parses |-> FALSE, data |-> DefaultProgress]

VehicleKeys ==
    {"title", "make", "model", "variant", "year", "price", "mileage",
     "fuel_type", "body_type", "gearbox"}

\* a {} held as the value of an attribute
EmptyMapping == "{}"

\* the values line 81 removes
Removed == {Null, "", EmptyMapping}

\* a faulty flatten that removes None alone
flatten_KeepsBlank(rec) ==
    LET v == Get(rec, "vehicle", EmptyDict)
        d == Get(rec, "dealer", EmptyDict)
        text == [k \in VehicleKeys |-> Get(v, k, Null)] @@
                [dealer_name |-> Get(d, "name", Null),
                 dealer_phone |-> Get(d, "phone", Null),
                 dealer_location |-> Get(d, "location", Null),
                 dealer_city |-> Get(d, "city", Null)]
        keep == {k \in DOMAIN text : text[k] # Null}
        url == Get(rec, "listing_url", EmptyStr)
    IN  IF url = EmptyStr
        THEN [k \in keep |-> text[k]]
        ELSE [listing_url |-> url] @@ [k \in keep |-> text[k]]

\* listing_url is a character sequence, so its None and '' are both <<>>
flatten(rec) ==
    LET v == Get(rec, "vehicle", EmptyDict)
        d == Get(rec, "dealer", EmptyDict)
        text == [k \in VehicleKeys |-> Get(v, k, Null)] @@
                [dealer_name |-> Get(d, "name", Null),
                 dealer_phone |-> Get(d, "phone", Null),
                 dealer_location |-> Get(d, "location", Null),
                 dealer_city |-> Get(d, "city", Null)]
        keep == {k \in DOMAIN text : text[k] \notin Removed}
        url == Get(rec, "listing_url", EmptyStr)
    IN  IF url = EmptyStr
        THEN [k \in keep |-> text[k]]
        ELSE [listing_url |-> url] @@ [k \in keep |-> text[k]]

\* [flatten(r) for r in rows if r]
RECURSIVE FlattenAll(_)
FlattenAll(rs) ==
    IF rs = <<>> THEN <<>>
    ELSE IF DOMAIN Head(rs) = {} THEN FlattenAll(Tail(rs))
    ELSE <<flatten(Head(rs))>> \o FlattenAll(Tail(rs))

StartPage(pr, s) == pr[s].last_page + 1
\* a faulty end_page, one page too far
EndPage_Exclusive(start) == start + PagesPerRun
EndPage(start) == start + PagesPerRun - 1

\* a faulty update that counts a range as one page
Advance_CountsOnePage(pr, s, endPage, n, t) ==
    [pr EXCEPT ![s] =
        [last_page |-> endPage,
         total_pages_scraped |-> @.total_pages_scraped + 1,
         total_listings |-> @.total_listings + n,
         last_run |-> <<t>>]]

\* the four assignments that follow save_to_leads in a section of main
Advance(pr, s, endPage, n, t) ==
    [pr EXCEPT ![s] =
        [last_page |-> endPage,
         total_pages_scraped |-> @.total_pages_scraped + PagesPerRun,
         total_listings |-> @.total_listings + n,
         last_run |-> <<t>>]]

\* what a scraper hands back when it hands back rows
ScrapeResults == {<<RecFord>>, <<RecNoUrl>>}

NoRange == [s \in SourceNames |-> <<>>]
NoCount == [s \in SourceNames |-> 0]

\* no process of run_all.py is running
MemoryIdle ==
    /\ progress = DefaultProgress
    /\ opc = "stopped"
    /\ section = 0
    /\ main_start_page = 0
    /\ main_end_page = 0
    /\ rows = <<>>
    /\ flat = <<>>
    /\ save_status = "none"
    /\ successes = NoCount
    /\ advanced = NoRange

OrchIdle ==
    /\ file = NoFile
    /\ MemoryIdle
    /\ runs = 0
    /\ persisted = NoCount
    /\ interrupted = NoRange

----------------------------------------------------------------------------
(***************************************************************************)
(* The connection pools: main_pool of db_helper.py, pistonheads_pool and   *)
(* aa_pool of the standalone scrapers, and the operations that check a     *)
(* connection out of them.                                                 *)
(***************************************************************************)
MainPoolSize == 10
PistonheadsPoolSize == 5
AaPoolSize == 5

Pools == {"main_pool", "pistonheads_pool", "aa_pool"}
PoolSize(q) ==
    CASE q = "main_pool" -> MainPoolSize
      [] q = "pistonheads_pool" -> PistonheadsPoolSize
      [] OTHER -> AaPoolSize

\* the operations of db_helper.py on main_pool
HelperOps ==
    {"ensure_raw_source_table_exists", "save_to_raw_source",
     "get_stats_by_source", "get_raw_source_sample"}
\* verify_database_connection of the two standalone scrapers
VerifyOps ==
    {"pistonheads.verify_database_connection",
     "aa.verify_database_connection"}
PoolOps == HelperOps \cup VerifyOps \cup {"pistonheads.save_to_database"}

PoolOf(op) ==
    CASE op \in HelperOps -> "main_pool"
      [] op = "aa.verify_database_connection" -> "aa_pool"
      [] OTHER -> "pistonheads_pool"

\* the table an operation of a standalone scraper works on
LegacyTables == {"raw_pistonheads_db", "raw_aa_db"}
TableOf(op) ==
    IF op = "aa.verify_database_connection" THEN "raw_aa_db"
    ELSE "raw_pistonheads_db"

LegacyUrls == {Ua}
Absent == [exists |-> FALSE, rows |-> {}]
Created == [exists |-> TRUE, rows |-> {}]

\* the operations whose except clause returns without cn.close()
NeverClosesOnError == {"get_stats_by_source", "get_raw_source_sample"}

\* what the error exit of op does with the connection it holds: the others
\* close it when is_connected() says so
ClosesOnError(op, isConnected) ==
    op \notin NeverClosesOnError /\ isConnected

PoolIdle ==
    /\ free = [q \in Pools |-> PoolSize(q)]
    /\ holder = "none"
    /\ connected = TRUE
    /\ refused = 0
    /\ legacy = [t \in LegacyTables |-> Absent]

\* the values an attribute of a scraped record takes
Texts == {Null, "", EmptyMapping, "Ford"}

\* the records a scraper hands to flatten: listing_url missing, '' or a URL;
\* the vehicle and dealer groups missing, {} or dicts of attributes, one of
\* them (colour, email) outside the columns
UrlParts == {EmptyDict, [listing_url |-> EmptyStr], [listing_url |-> Ua]}
VehicleGroups ==
    {EmptyDict} \cup [{"make"} -> Texts] \cup [{"make", "model"} -> Texts]
        \cup {[make |-> "Ford", colour |-> "Red"]}
DealerGroups ==
    {EmptyDict} \cup [{"name"} -> Texts]
        \cup {[name |-> "Ford", email |-> "Ford"]}
VehicleParts == {EmptyDict} \cup {[vehicle |-> v] : v \in VehicleGroups}
DealerParts == {EmptyDict} \cup {[dealer |-> d] : d \in DealerGroups}
\* `for r in rows if r`: the empty record is not flattened
NestedRecords ==
    {u @@ v @@ d : u \in UrlParts, v \in VehicleParts, d \in DealerParts}
        \ {EmptyDict}

FlatIdle ==
    /\ nested = RecFord
    /\ flattened = EmptyDict
    /\ fpc = "idle"

\* no detail loop is running; batch_size is the default of run_cazoo
DetailIdle ==
    /\ batch_size = BatchSize
    /\ dpc = "idle"
    /\ di = 0
    /\ drows = <<>>
    /\ result = <<>>
    /\ fetch_log = <<>>
    /\ naps = 0
    /\ extracted = <<>>
    /\ handed = <<>>

StatsIdle ==
    /\ stats = EmptyDict
    /\ spc = "idle"

\* pistonheads_scraper.py 301-306: what load_progress returns when there
\* is no file
PhDefault == [start_page |-> 1, last_successful_page |-> 0, total_scraped |-> 0]

PageIdle ==
    /\ ph_file = [exists |-> FALSE, data |-> PhDefault]
    /\ ph_progress = PhDefault
    /\ ph_pc = "stopped"
    /\ ph_start_page = 0
    /\ total_scraped = 0
    /\ end_page = 0
    /\ current_page = 0
    /\ all_results = 0
    /\ ph_runs = 0
    /\ page_log = <<>>

NoResult == [op |-> "", value |-> ""]

\* the module was imported some time ago
BootIdle ==
    /\ retries = 0
    /\ attempt = 0
    /\ bpc = "done"
    /\ tried = 0
    /\ slept = 0
    /\ raised = FALSE
    /\ op_result = NoResult

AuxIdle ==
    PoolIdle /\ FlatIdle /\ DetailIdle /\ StatsIdle /\ PageIdle /\ BootIdle

----------------------------------------------------------------------------
(***************************************************************************)
(* save_to_raw_source (db_helper.py 516-608), one action per statement.    *)
(***************************************************************************)
\* no harvest is running and the site is down
HarvestIdle ==
    /\ site = [n \in 1..SitePages |-> FetchFailed]
    /\ fetched = <<>>
    /\ hpc = "idle"
    /\ start_page = 0
    /\ batch_pages = 0
    /\ max_per_page = 0
    /\ page_num = 0
    /\ urls = <<>>
    /\ car_listing_urls = <<>>
    /\ caller = ""
    /\ search_url = 0
    /\ max_pages = 0
    /\ page = 0
    /\ consecutive_empty = 0
    /\ all_links = <<>>
    /\ unique_links = <<>>

StorageInit ==
    /\ table = EmptyBag
    /\ txn = [p \in Sessions |-> EmptyTxn]
    /\ now = 0
    /\ pool \in BOOLEAN
    /\ pc = [p \in Sessions |-> "idle"]
    /\ records = [p \in Sessions |-> <<>>]
    /\ source = [p \in Sessions |-> ""]
    /\ i = [p \in Sessions |-> 0]
    /\ cn = [p \in Sessions |-> "unset"]
    /\ inserted_count = [p \in Sessions |-> 0]
    /\ updated_count = [p \in Sessions |-> 0]
    /\ error_count = [p \in Sessions |-> 0]
    /\ calls = [p \in Sessions |-> 0]

\* lines 516-536: the counters are zeroed and the record loop is entered on a
\* fresh connection
Enter(p, recs, src) ==
    /\ pc[p] = "idle"
    /\ pool
    /\ recs # <<>>
    /\ records' = [records EXCEPT ![p] = recs]
    /\ source' = [source EXCEPT ![p] = src]
    /\ pc' = [pc EXCEPT ![p] = "loop"]
    /\ i' = [i EXCEPT ![p] = 1]
    /\ cn' = [cn EXCEPT ![p] = "open"]
    /\ inserted_count' = [inserted_count EXCEPT ![p] = 0]
    /\ updated_count' = [updated_count EXCEPT ![p] = 0]
    /\ error_count' = [error_count EXCEPT ![p] = 0]
    /\ UNCHANGED <<table, txn, now, pool>>

\* a call of the session, with a batch and a source label of the given sets
Call(p, batches, sources, maxCalls) ==
    /\ calls[p] < maxCalls
    /\ \E recs \in batches, src \in sources : Enter(p, recs, src)
    /\ calls' = [calls EXCEPT ![p] = @ + 1]
    /\ UNCHANGED <<harvVars, orchVars, auxVars>>

\* lines 516-528 and 604-608: the call returns before the record loop: no
\* records, no pool, ensure_raw_source_table_exists() returned False, or
\* pool.get_connection() raised Error
CallReturnsEarly(p, maxCalls) ==
    /\ pc[p] = "idle"
    /\ calls[p] < maxCalls
    /\ calls' = [calls EXCEPT ![p] = @ + 1]
    /\ UNCHANGED <<table, txn, now, pool, pc, records, source, i, cn,
                   inserted_count, updated_count, error_count>>
    /\ UNCHANGED <<harvVars, orchVars, auxVars>>

\* the frame of a call that has returned
Returned(p) ==
    /\ pc' = [pc EXCEPT ![p] = "idle"]
    /\ records' = [records EXCEPT ![p] = <<>>]
    /\ source' = [source EXCEPT ![p] = ""]
    /\ i' = [i EXCEPT ![p] = 0]
    /\ cn' = [cn EXCEPT ![p] = "unset"]
    /\ inserted_count' = [inserted_count EXCEPT ![p] = 0]
    /\ updated_count' = [updated_count EXCEPT ![p] = 0]
    /\ error_count' = [error_count EXCEPT ![p] = 0]

InLoop(p) == pc[p] = "loop" /\ i[p] <= Len(records[p])
ListingUrl(p) == Get(records[p][i[p]], "listing_url", EmptyStr)

\* a faulty loop that hands the record without listing_url to the statement
SkipNoUrl_Stores(p) ==
    /\ InLoop(p)
    /\ ListingUrl(p) = EmptyStr
    /\ txn' = [txn EXCEPT ![p] =
                 ApplyWrite(@, UpsertRow(View(p), source[p], EmptyStr,
                                         records[p][i[p]], now))]
    /\ inserted_count' = [inserted_count EXCEPT ![p] = @ + 1]
    /\ i' = [i EXCEPT ![p] = @ + 1]
    /\ UNCHANGED <<table, now, pool, pc, records, source, cn,
                   updated_count, error_count, calls>>
    /\ UNCHANGED <<harvVars, orchVars, auxVars>>

\* lines 548-552: no listing_url
SkipNoUrl(p) ==
    /\ InLoop(p)
    /\ ListingUrl(p) = EmptyStr
    /\ error_count' = [error_count EXCEPT ![p] = @ + 1]
    /\ i' = [i EXCEPT ![p] = @ + 1]
    /\ UNCHANGED <<table, txn, now, pool, pc, records, source, cn,
                   inserted_count, updated_count, calls>>
    /\ UNCHANGED <<harvVars, orchVars, auxVars>>

\* lines 554-576: execute, count, and the commit of every 50th record
ExecOk(p) ==
    /\ InLoop(p)
    /\ ListingUrl(p) # EmptyStr
    /\ ~Locked(p, KeyOf(source[p], ListingUrl(p)))
    /\ LET w == UpsertRow(View(p), source[p], ListingUrl(p), records[p][i[p]], now)
           tx == ApplyWrite(txn[p], w)
           rc == RowCount(w)
       IN  /\ inserted_count' = [inserted_count EXCEPT ![p] = IF rc = 1 THEN @ + 1 ELSE @]
           /\ updated_count' = [updated_count EXCEPT ![p] = IF rc = 2 THEN @ + 1 ELSE @]
           /\ IF i[p] % CommitEvery = 0
              THEN \E committed \in BOOLEAN :
                     IF committed
                     THEN /\ table' = ViewOf(table, tx)
                          /\ txn' = [txn EXCEPT ![p] = EmptyTxn]
                          /\ UNCHANGED error_count
                     ELSE /\ txn' = [txn EXCEPT ![p] = tx]
                          /\ error_count' = [error_count EXCEPT ![p] = @ + 1]
                          /\ UNCHANGED table
              ELSE /\ txn' = [txn EXCEPT ![p] = tx]
                   /\ UNCHANGED <<table, error_count>>
    /\ i' = [i EXCEPT ![p] = @ + 1]
    /\ UNCHANGED <<now, pool, pc, records, source, cn, calls>>
    /\ UNCHANGED <<harvVars, orchVars, auxVars>>

\* a faulty loop that gives up the rest of the batch when a statement raises
ExecError_Aborts(p) ==
    /\ InLoop(p)
    /\ ListingUrl(p) # EmptyStr
    /\ error_count' = [error_count EXCEPT ![p] = @ + 1]
    /\ i' = [i EXCEPT ![p] = Len(records[p]) + 1]
    /\ UNCHANGED <<table, txn, now, pool, pc, records, source, cn,
                   inserted_count, updated_count, calls>>
    /\ UNCHANGED <<harvVars, orchVars, auxVars>>

\* lines 578-581: the statement raised Error (a lock wait timeout among them)
ExecError(p) ==
    /\ InLoop(p)
    /\ ListingUrl(p) # EmptyStr
    /\ error_count' = [error_count EXCEPT ![p] = @ + 1]
    /\ i' = [i EXCEPT ![p] = @ + 1]
    /\ UNCHANGED <<table, txn, now, pool, pc, records, source, cn,
                   inserted_count, updated_count, calls>>
    /\ UNCHANGED <<harvVars, orchVars, auxVars>>

\* lines 583-602: final commit, the two COUNT(*) reads, the summary, close
Commit(p) ==
    /\ pc[p] = "loop" /\ i[p] > Len(records[p])
    /\ table' = View(p)
    /\ txn' = [txn EXCEPT ![p] = EmptyTxn]
    /\ Returned(p)
    /\ UNCHANGED <<now, pool>>

FinalCommit(p) ==
    /\ Commit(p)
    /\ UNCHANGED calls
    /\ UNCHANGED <<harvVars, orchVars, auxVars>>

\* lines 604-608: the commit or a COUNT(*) raised Error: rollback, close
Rollback(p) ==
    /\ pc[p] = "loop" /\ i[p] > Len(records[p])
    /\ txn' = [txn EXCEPT ![p] = EmptyTxn]
    /\ Returned(p)
    /\ UNCHANGED <<table, now, pool>>

SaveFailed(p) ==
    /\ Rollback(p)
    /\ UNCHANGED calls
    /\ UNCHANGED <<harvVars, orchVars, auxVars>>

\* the server clock
Tick ==
    /\ now < MaxTime
    /\ now' = now + 1
    /\ UNCHANGED <<table, txn, pool, pc, records, source, i, cn,
                   inserted_count, updated_count, error_count, calls>>
    /\ UNCHANGED <<harvVars, orchVars, auxVars>>

SinkStep(p) ==
    \/ SkipNoUrl(p)
    \/ ExecOk(p)
    \/ ExecError(p)
    \/ FinalCommit(p)
    \/ SaveFailed(p)

\* one session, call after call
SinkNext ==
    \/ Call("s1", SinkBatches, SinkSources, MaxCalls)
    \/ CallReturnsEarly("s1", MaxCalls)
    \/ SinkStep("s1")
    \/ Tick

SinkInit == StorageInit /\ HarvestIdle /\ OrchIdle /\ AuxIdle

SinkSpec == SinkInit /\ [][SinkNext]_vars

\* two sessions, their statements interleaved
ConcNext ==
    \/ \E p \in Sessions :
        \/ Call(p, ConcBatches, ConcSources, ConcCalls)
        \/ CallReturnsEarly(p, ConcCalls)
        \/ SinkStep(p)
    \/ Tick

ConcSpec == SinkInit /\ [][ConcNext]_vars

\* a batch long enough for the commit of every 50th record: 2 * 50 records
\* with pairwise different URLs, those at the positions of holes without one
UnaryUrl(k) == [j \in 1..k |-> "x"]
LongBatch(holes) ==
    [k \in 1..(2 * CommitEvery) |->
        IF k \in holes THEN RecNoUrl
        ELSE [listing_url |-> UnaryUrl(k), vehicle |-> [make |-> "Ford"]]]
LongBatches == {LongBatch({}), LongBatch({CommitEvery})}

\* one session saving long batches on a server whose statements succeed
BatchNext ==
    \/ Call("s1", LongBatches, ConcSources, ConcCalls)
    \/ SkipNoUrl("s1")
    \/ ExecOk("s1")
    \/ FinalCommit("s1")
    \/ SaveFailed("s1")

BatchInit == StorageInit /\ HarvestIdle /\ OrchIdle /\ AuxIdle

BatchSpec == BatchInit /\ [][BatchNext]_vars

----------------------------------------------------------------------------
(***************************************************************************)
(* The Cazoo harvester (scrapers/cazoo_scraper.py).                        *)
(***************************************************************************)
\* list(dict.fromkeys(seq)): first occurrences, in order
RECURSIVE Dedup(_)
Dedup(seq) ==
    IF seq = <<>> THEN <<>>
    ELSE LET front == Dedup(SubSeq(seq, 1, Len(seq) - 1))
             x == seq[Len(seq)]
         IN  IF \E k \in 1..Len(front) : front[k] = x THEN front
             ELSE Append(front, x)

RECURSIVE MapClean(_)
MapClean(seq) ==
    IF seq = <<>> THEN <<>>
    ELSE <<CleanUrl(Head(seq))>> \o MapClean(Tail(seq))

\* lines 106-123: the page's links, cleaned, each once
PageLinks(hrefs) == Dedup(MapClean(hrefs))

\* urls[:n]
Take(seq, n) == SubSeq(seq, 1, IF n < Len(seq) THEN n ELSE Len(seq))

\* lines 63-67: params['page'] = [str(page)] replaces the page of search_url,
\* so the page requested is the loop counter whatever search_url names
CurrentUrl(searchUrl, pg) == pg

\* max_per_page of run_cazoo: a cap of one, and the default of line 497
MaxPerPage == 50
PerPageCaps == {1, MaxPerPage}

LoopCond == page <= max_pages /\ consecutive_empty < 2

\* the site answers; the harvest starts from nothing
HarvestInit ==
    /\ site \in [1..SitePages -> PageResponses]
    /\ fetched = <<>>
    /\ hpc = "idle"
    /\ start_page = 0
    /\ batch_pages = 0
    /\ max_per_page = 0
    /\ page_num = 0
    /\ urls = <<>>
    /\ car_listing_urls = <<>>
    /\ caller = ""
    /\ search_url = 0
    /\ max_pages = 0
    /\ page = 0
    /\ consecutive_empty = 0
    /\ all_links = <<>>
    /\ unique_links = <<>>

\* run_cazoo(urls=None, batch_pages=b, start_page=s), lines 505-511
RunCazoo ==
    /\ hpc = "idle"
    /\ \E s \in 1..MaxStart, b \in 1..MaxPages :
        /\ start_page' = s
        /\ batch_pages' = b
        /\ page_num' = s
    /\ max_per_page' \in PerPageCaps
    /\ urls' = <<>>
    /\ caller' = "run_cazoo"
    /\ hpc' = "pages"
    /\ UNCHANGED <<site, fetched, car_listing_urls, search_url, max_pages, page,
                   consecutive_empty, all_links, unique_links>>
    /\ UNCHANGED <<sinkVars, orchVars, auxVars>>

\* lines 511-515: page_urls = await _harvest_links(page_url, 1)
HarvestPage ==
    /\ hpc = "pages"
    /\ page_num < start_page + batch_pages
    /\ search_url' = page_num
    /\ max_pages' = 1
    /\ page' = 1
    /\ consecutive_empty' = 0
    /\ all_links' = <<>>
    /\ hpc' = "harvest"
    /\ UNCHANGED <<site, max_per_page, fetched, start_page, batch_pages, page_num, urls,
                   car_listing_urls, caller, unique_links>>
    /\ UNCHANGED <<sinkVars, orchVars, auxVars>>

\* _harvest_links(search_url, max_pages) called on its own, lines 54-58
HarvestLinks ==
    /\ hpc = "idle"
    /\ \E s \in 1..MaxStart, m \in 1..MaxPages :
        /\ search_url' = s
        /\ max_pages' = m
    /\ page' = 1
    /\ consecutive_empty' = 0
    /\ all_links' = <<>>
    /\ caller' = "direct"
    /\ hpc' = "harvest"
    /\ UNCHANGED <<site, max_per_page, fetched, start_page, batch_pages, page_num, urls,
                   car_listing_urls, unique_links>>
    /\ UNCHANGED <<sinkVars, orchVars, auxVars>>

FetchFail_Aborts ==
    /\ hpc = "harvest" /\ LoopCond
    /\ ~site[CurrentUrl(search_url, page)].success
    /\ fetched' = Append(fetched, [page |-> CurrentUrl(search_url, page),
                                   found |-> 0, paced |-> FALSE])
    /\ all_links' = <<>>
    /\ unique_links' = <<>>
    /\ hpc' = "returned"
    /\ UNCHANGED <<site, max_per_page, start_page, batch_pages, page_num, urls,
                   car_listing_urls, caller, search_url, max_pages, page,
                   consecutive_empty>>
    /\ UNCHANGED <<sinkVars, orchVars, auxVars>>

\* lines 60-92: the fetch failed; `continue` goes back to the loop test
\* past the sleep of line 146
FetchFail ==
    /\ hpc = "harvest" /\ LoopCond
    /\ ~site[CurrentUrl(search_url, page)].success
    /\ fetched' = Append(fetched, [page |-> CurrentUrl(search_url, page),
                                   found |-> 0, paced |-> FALSE])
    /\ consecutive_empty' = consecutive_empty + 1
    /\ page' = IF consecutive_empty + 1 >= 2 THEN page ELSE page + 1
    /\ UNCHANGED <<site, max_per_page, hpc, start_page, batch_pages, page_num, urls,
                   car_listing_urls, caller, search_url, max_pages, all_links,
                   unique_links>>
    /\ UNCHANGED <<sinkVars, orchVars, auxVars>>

\* lines 60-84, 94-146: the fetch succeeded; the iteration ends with
\* asyncio.sleep(2)
FetchOk ==
    /\ hpc = "harvest" /\ LoopCond
    /\ site[CurrentUrl(search_url, page)].success
    /\ LET page_links == PageLinks(site[CurrentUrl(search_url, page)].hrefs)
       IN  /\ fetched' = Append(fetched, [page |-> CurrentUrl(search_url, page),
                                          found |-> Len(page_links),
                                          paced |-> TRUE])
           /\ IF page_links = <<>>
              THEN /\ consecutive_empty' = consecutive_empty + 1
                   /\ UNCHANGED all_links
              ELSE /\ consecutive_empty' = 0
                   /\ all_links' = all_links \o page_links
    /\ page' = page + 1
    /\ UNCHANGED <<site, max_per_page, hpc, start_page, batch_pages, page_num, urls,
                   car_listing_urls, caller, search_url, max_pages, unique_links>>
    /\ UNCHANGED <<sinkVars, orchVars, auxVars>>

\* the log once asyncio.sleep has run after its last fetch
Slept(log) ==
    IF log = <<>> THEN log ELSE [log EXCEPT ![Len(log)].paced = TRUE]

\* lines 148-150 and, in run_cazoo, 515-521, the last of them
\* asyncio.sleep(1.5)
HarvestReturn ==
    /\ hpc = "harvest" /\ ~LoopCond
    /\ unique_links' = Dedup(all_links)
    /\ IF caller = "run_cazoo"
       THEN /\ urls' = urls \o Dedup(all_links)
            /\ page_num' = page_num + 1
            /\ fetched' = Slept(fetched)
            /\ hpc' = "pages"
       ELSE /\ hpc' = "returned"
            /\ UNCHANGED <<urls, page_num, fetched>>
    /\ UNCHANGED <<site, max_per_page, start_page, batch_pages, car_listing_urls,
                   caller, search_url, max_pages, page, consecutive_empty,
                   all_links>>
    /\ UNCHANGED <<sinkVars, orchVars, auxVars>>

\* lines 523-540: nothing harvested, or the URLs handed to the detail loop
\* (every harvested link has passed the '/cars-for-sale/<digits>' test of 535)
HarvestDone ==
    /\ hpc = "pages"
    /\ page_num >= start_page + batch_pages
    /\ IF urls = <<>>
       THEN /\ hpc' = "returned"
            /\ UNCHANGED car_listing_urls
       ELSE /\ car_listing_urls' = Take(urls, BatchSize)
            /\ hpc' = "extract"
    /\ UNCHANGED <<site, max_per_page, fetched, start_page, batch_pages, page_num, urls,
                   caller, search_url, max_pages, page, consecutive_empty,
                   all_links, unique_links>>
    /\ UNCHANGED <<sinkVars, orchVars, auxVars>>

HarvestNext ==
    \/ RunCazoo
    \/ HarvestPage
    \/ HarvestLinks
    \/ FetchFail
    \/ FetchOk
    \/ HarvestReturn
    \/ HarvestDone

HarvestSpecInit == HarvestInit /\ StorageInit /\ OrchIdle /\ AuxIdle

HarvestSpec == HarvestSpecInit /\ [][HarvestNext]_vars

----------------------------------------------------------------------------
(***************************************************************************)
(* The detail loop of run_cazoo (cazoo_scraper.py 526-572); run_gumtree    *)
(* (gumtree_scraper.py 452-493) has the same loop.                         *)
(***************************************************************************)
BatchSaveSize == 10

\* urls[:batch_size] if batch_size else urls
TakeBatch_All(seq, b) == seq

TakeBatch(seq, b) == IF b = 0 THEN seq ELSE Take(seq, b)

\* the URL lists handed to run_cazoo(urls, ...): n listing URLs, all different
GivenUrls(n) == [k \in 1..n |-> UnaryUrl(k)]

\* the batch_size arguments: a small one, and the default
BatchSizes == {2, BatchSize}

\* what extract_cazoo_listing delivers for a URL when it delivers a record
RecordOf(url) == [listing_url |-> url, vehicle |-> [make |-> "Ford"]]

\* run_cazoo(urls, batch_size=b), lines 505, 526-540: the harvest is skipped
RunCazooUrls ==
    /\ hpc = "idle"
    /\ \E n \in 1..MaxUrls, b \in BatchSizes :
        /\ urls' = GivenUrls(n)
        /\ batch_size' = b
        /\ car_listing_urls' = TakeBatch(GivenUrls(n), b)
    /\ caller' = "run_cazoo"
    /\ hpc' = "extract"
    /\ UNCHANGED <<site, fetched, start_page, batch_pages, max_per_page,
                   page_num, search_url, max_pages, page, consecutive_empty,
                   all_links, unique_links>>
    /\ UNCHANGED <<dpc, di, drows, result, fetch_log, naps, extracted, handed>>
    /\ UNCHANGED <<sinkVars, orchVars, poolVars, flatVars, statVars,
                   pageVars, bootVars>>

\* lines 542-545: rows = [], the loop is entered
DetailStart ==
    /\ hpc = "extract"
    /\ dpc = "idle"
    /\ drows' = <<>>
    /\ di' = 1
    /\ dpc' = IF car_listing_urls = <<>> THEN "final" ELSE "fetch"
    /\ UNCHANGED <<batch_size, result, fetch_log, naps, extracted, handed>>
    /\ UNCHANGED <<sinkVars, harvVars, orchVars, poolVars, flatVars, statVars,
                   pageVars, bootVars>>

\* lines 564-565: the loop sleeps unless the URL was the last
AfterFetch == dpc' = IF di < Len(car_listing_urls) THEN "pause" ELSE "final"

\* lines 547-554: a record with a vehicle; the save of a full
\* batch hands rows to save_to_leads and starts an empty list
ExtractOk ==
    /\ dpc = "fetch"
    /\ LET rec == RecordOf(car_listing_urls[di])
           grown == Append(drows, rec)
       IN  /\ fetch_log' = Append(fetch_log, car_listing_urls[di])
           /\ extracted' = Append(extracted, rec)
           /\ IF Len(grown) >= BatchSaveSize
              THEN /\ handed' = Append(handed, grown)
                   /\ drows' = <<>>
              ELSE /\ drows' = grown
                   /\ UNCHANGED handed
    /\ AfterFetch
    /\ UNCHANGED <<batch_size, di, result, naps>>
    /\ UNCHANGED <<sinkVars, harvVars, orchVars, poolVars, flatVars, statVars,
                   pageVars, bootVars>>

\* a faulty handler that leaves the loop when the extraction raises
ExtractNothing_Aborts ==
    /\ dpc = "fetch"
    /\ fetch_log' = Append(fetch_log, car_listing_urls[di])
    /\ dpc' = "final"
    /\ UNCHANGED <<batch_size, di, drows, result, naps, extracted, handed>>
    /\ UNCHANGED <<sinkVars, harvVars, orchVars, poolVars, flatVars, statVars,
                   pageVars, bootVars>>

\* lines 555-558: None or a record without a vehicle came back, or
\* extract_cazoo_listing raised: a line is printed
ExtractNothing ==
    /\ dpc = "fetch"
    /\ fetch_log' = Append(fetch_log, car_listing_urls[di])
    /\ AfterFetch
    /\ UNCHANGED <<batch_size, di, drows, result, naps, extracted, handed>>
    /\ UNCHANGED <<sinkVars, harvVars, orchVars, poolVars, flatVars, statVars,
                   pageVars, bootVars>>

\* lines 561-562: await asyncio.sleep(2), then the next URL
DetailSleep ==
    /\ dpc = "pause"
    /\ naps' = naps + 1
    /\ di' = di + 1
    /\ dpc' = "fetch"
    /\ UNCHANGED <<batch_size, drows, result, fetch_log, extracted, handed>>
    /\ UNCHANGED <<sinkVars, harvVars, orchVars, poolVars, flatVars, statVars,
                   pageVars, bootVars>>

\* lines 564-572: the rest is saved, and rows is returned as it stands
DetailReturn ==
    /\ dpc = "final"
    /\ handed' = IF drows = <<>> THEN handed ELSE Append(handed, drows)
    /\ result' = drows
    /\ dpc' = "returned"
    /\ hpc' = "returned"
    /\ UNCHANGED <<site, fetched, start_page, batch_pages, max_per_page,
                   page_num, urls, car_listing_urls, caller, search_url,
                   max_pages, page, consecutive_empty, all_links, unique_links>>
    /\ UNCHANGED <<batch_size, di, drows, fetch_log, naps, extracted>>
    /\ UNCHANGED <<sinkVars, orchVars, poolVars, flatVars, statVars,
                   pageVars, bootVars>>

DetailNext ==
    \/ DetailStart
    \/ ExtractOk
    \/ ExtractNothing
    \/ DetailSleep
    \/ DetailReturn

\* the first search page of a run: unreachable, or with three hrefs
RunResponses == {FetchFailed, [success |-> TRUE, hrefs |-> <<Ua, Ub, UbQ>>]}

\* run_cazoo from its call to its return, with or without a URL list
RunNext ==
    \/ RunCazoo
    \/ RunCazooUrls
    \/ HarvestPage
    \/ FetchFail
    \/ FetchOk
    \/ HarvestReturn
    \/ HarvestDone
    \/ DetailNext

RunInit ==
    /\ HarvestInit
    /\ site[1] \in RunResponses
    /\ \A n \in 2..SitePages : site[n] = FetchFailed
    /\ StorageInit /\ OrchIdle /\ AuxIdle

RunSpec == RunInit /\ [][RunNext]_vars

\* the event loop runs the one coroutine of a run until it returns: every
\* fetch has a timeout and every sleep ends
RunLive == RunInit /\ [][RunNext]_vars /\ WF_vars(RunNext)

----------------------------------------------------------------------------
(***************************************************************************)
(* run_all.main (run_all.py 86-273), process after process.  The three     *)
(* sections of main differ in the scraper they await and in the label they *)
(* hand to save_to_leads; run_pistonheads and run_aa are awaited for what  *)
(* they return, run_cazoo also saves what it returns (cazoo_scraper.py     *)
(* 561-568).  save_to_leads is save_to_raw_source (db_helper.py 688-691),  *)
(* run by session "s1".                                                    *)
(***************************************************************************)
Current == Sources[section]

\* lines 128-129: the page range of a section
EnterSection(k, pr) ==
    /\ section' = k
    /\ main_start_page' = StartPage(pr, Sources[k])
    /\ main_end_page' = EndPage(StartPage(pr, Sources[k]))
    /\ rows' = <<>>
    /\ flat' = <<>>
    /\ save_status' = "none"
    /\ opc' = "scrape"

\* lines 86-129: a process starts and loads the progress file
OrchStart ==
    /\ opc = "stopped"
    /\ runs < MaxRuns
    /\ runs' = runs + 1
    /\ progress' = load_progress(file)
    /\ EnterSection(1, load_progress(file))
    /\ successes' = persisted
    /\ UNCHANGED <<file, persisted, advanced, interrupted>>
    /\ UNCHANGED <<sinkVars, harvVars, auxVars>>

\* a faulty handler that gives up the sections that follow
ScrapeNoRows_SkipsRest ==
    /\ opc = "scrape"
    /\ opc' = "next"
    /\ section' = Len(Sources)
    /\ UNCHANGED <<file, progress, main_start_page, main_end_page,
                   rows, flat, runs, save_status, successes, persisted,
                   advanced, interrupted>>
    /\ UNCHANGED <<sinkVars, harvVars, auxVars>>

\* a faulty handler that moves the checkpoint past the empty range
ScrapeNoRows_Advances ==
    /\ opc = "scrape"
    /\ opc' = "next"
    /\ progress' = Advance(progress, Current, main_end_page, 0, now)
    /\ UNCHANGED <<file, section, main_start_page, main_end_page,
                   rows, flat, runs, save_status, successes, persisted,
                   advanced, interrupted>>
    /\ UNCHANGED <<sinkVars, harvVars, auxVars>>

\* lines 134-139, 151-160: the scraper raised, or returned no rows
ScrapeNoRows ==
    /\ opc = "scrape"
    /\ opc' = "next"
    /\ UNCHANGED <<file, progress, section, main_start_page, main_end_page,
                   rows, flat, runs, save_status, successes, persisted,
                   advanced, interrupted>>
    /\ UNCHANGED <<sinkVars, harvVars, auxVars>>

\* lines 134-143: the scraper returned rows; run_cazoo is about to save them
ScrapeRows ==
    /\ opc = "scrape"
    /\ \E rs \in ScrapeResults :
        /\ rows' = rs
        /\ IF Current = "cazoo"
           THEN opc' = "cz_save" /\ flat' = <<>>
           ELSE opc' = "save" /\ flat' = FlattenAll(rs)
    /\ UNCHANGED <<file, progress, section, main_start_page, main_end_page,
                   runs, save_status, successes, persisted, advanced,
                   interrupted>>
    /\ UNCHANGED <<sinkVars, harvVars, auxVars>>

SaveRecords == IF opc = "cz_save" THEN rows ELSE flat
SaveLabel == IF opc = "cz_save" THEN "cazoo" ELSE Label(Current)

\* save_to_raw_source returned, to run_cazoo or to main
AfterSave(status) ==
    /\ save_status' = status
    /\ IF opc \in {"cz_save", "cz_saving"}
       THEN opc' = "save" /\ flat' = FlattenAll(rows)
       ELSE opc' = "update" /\ flat' = flat
    /\ UNCHANGED <<file, progress, section, main_start_page, main_end_page,
                   rows, runs, successes, persisted, advanced, interrupted>>

\* db_helper.py 516-536: the record loop is entered
OrchSaveEnter ==
    /\ opc \in {"cz_save", "save"}
    /\ Enter("s1", SaveRecords, SaveLabel)
    /\ opc' = IF opc = "cz_save" THEN "cz_saving" ELSE "saving"
    /\ UNCHANGED <<file, progress, section, main_start_page, main_end_page,
                   rows, flat, runs, save_status, successes, persisted,
                   advanced, interrupted>>
    /\ UNCHANGED <<calls, harvVars, auxVars>>

\* db_helper.py 518-528, 604-608: no records, no pool, table not ensured,
\* or no connection; the call prints and returns None
OrchSaveSkipped ==
    /\ opc \in {"cz_save", "save"}
    /\ AfterSave("unreachable")
    /\ UNCHANGED <<sinkVars, harvVars, auxVars>>

\* db_helper.py 583-602: committed; the call prints its summary and returns None
OrchSaveCommitted ==
    /\ opc \in {"cz_saving", "saving"}
    /\ Commit("s1")
    /\ AfterSave(IF error_count["s1"] = 0 THEN "complete" ELSE "partial")
    /\ UNCHANGED <<calls, harvVars, auxVars>>

\* db_helper.py 604-608: rolled back; the call prints and returns None
OrchSaveRolledBack ==
    /\ opc \in {"cz_saving", "saving"}
    /\ Rollback("s1")
    /\ AfterSave("rolled_back")
    /\ UNCHANGED <<calls, harvVars, auxVars>>

\* lines 146-150: the section advances its entry of progress
OrchUpdate ==
    /\ opc = "update"
    /\ progress' = Advance(progress, Current, main_end_page, Len(flat), now)
    /\ successes' = [successes EXCEPT ![Current] = @ + 1]
    /\ advanced' = IF save_status = "complete"
                   THEN [advanced EXCEPT ![Current] =
                           <<[start |-> main_start_page, end |-> main_end_page,
                              batch |-> flat]>>]
                   ELSE advanced
    /\ opc' = "next"
    /\ UNCHANGED <<file, section, main_start_page, main_end_page, rows, flat,
                   runs, save_status, persisted, interrupted>>
    /\ UNCHANGED <<sinkVars, harvVars, auxVars>>

\* lines 162-171, 202-211: on to the next section
OrchNextSection ==
    /\ opc = "next"
    /\ section < Len(Sources)
    /\ EnterSection(section + 1, progress)
    /\ UNCHANGED <<file, progress, runs, successes, persisted, advanced,
                   interrupted>>
    /\ UNCHANGED <<sinkVars, harvVars, auxVars>>

\* the process is gone: its memory, and its connection with the transaction
ProcessEnds ==
    /\ progress' = DefaultProgress
    /\ opc' = "stopped"
    /\ section' = 0
    /\ main_start_page' = 0
    /\ main_end_page' = 0
    /\ rows' = <<>>
    /\ flat' = <<>>
    /\ save_status' = "none"
    /\ advanced' = NoRange
    /\ txn' = [txn EXCEPT !["s1"] = EmptyTxn]
    /\ Returned("s1")
    /\ UNCHANGED <<table, now, pool, calls, runs>>
    /\ UNCHANGED <<harvVars, auxVars>>

\* lines 244-273: the progress file is written, the statistics are printed
SaveProgress ==
    /\ opc = "next"
    /\ section = Len(Sources)
    /\ file' = save_progress(progress)
    /\ persisted' = successes
    /\ successes' = NoCount
    /\ interrupted' = NoRange
    /\ ProcessEnds

\* the process is killed before line 245
Crash ==
    /\ opc # "stopped"
    /\ interrupted' = advanced
    /\ successes' = NoCount
    /\ ProcessEnds
    /\ UNCHANGED <<file, persisted>>

\* the process is killed inside save_progress (lines 51-52), after the
\* file was truncated and before json.dump wrote its last byte
CrashInSave ==
    /\ opc = "next"
    /\ section = Len(Sources)
    /\ file' = TornFile
    /\ persisted' = NoCount
    /\ successes' = NoCount
    /\ interrupted' = NoRange
    /\ ProcessEnds

OrchNext ==
    \/ OrchStart
    \/ ScrapeNoRows
    \/ ScrapeRows
    \/ OrchSaveEnter
    \/ OrchSaveSkipped
    \/ SkipNoUrl("s1")
    \/ ExecOk("s1")
    \/ ExecError("s1")
    \/ OrchSaveCommitted
    \/ OrchSaveRolledBack
    \/ OrchUpdate
    \/ OrchNextSection
    \/ SaveProgress
    \/ Crash
    \/ CrashInSave

OrchInit ==
    /\ StorageInit
    /\ AuxIdle
    /\ HarvestIdle
    /\ file = NoFile
    /\ MemoryIdle
    /\ runs = 0
    /\ persisted = NoCount
    /\ interrupted = NoRange

OrchSpec == OrchInit /\ [][OrchNext]_vars

\* lines 283-306: `run_all.py --reset` between two runs writes the default
\* progress to the file
ResetProgress ==
    /\ opc = "stopped"
    /\ file' = save_progress(DefaultProgress)
    /\ persisted' = NoCount
    /\ interrupted' = NoRange
    /\ UNCHANGED <<progress, opc, section, main_start_page, main_end_page,
                   rows, flat, runs, save_status, successes, advanced>>
    /\ UNCHANGED <<sinkVars, harvVars, auxVars>>

\* the runs of run_all.py with resets between them
ResetNext ==
    \/ OrchNext
    \/ ResetProgress

ResetSpec == OrchInit /\ [][ResetNext]_vars

----------------------------------------------------------------------------
(***************************************************************************)
(* The pooled connections, operation after operation of one process.  An   *)
(* operation takes a connection (pool.get_connection()), works, and leaves *)
(* by its normal return or by its except clause.                           *)
(***************************************************************************)
\* pool.get_connection(): a connection leaves the queue of the pool
Checkout(op) ==
    /\ holder = "none"
    /\ free[PoolOf(op)] > 0
    /\ free' = [free EXCEPT ![PoolOf(op)] = @ - 1]
    /\ holder' = op
    /\ connected' = TRUE
    /\ UNCHANGED <<refused, legacy>>
    /\ UNCHANGED <<sinkVars, harvVars, orchVars, flatVars, detVars, statVars,
                   pageVars, bootVars>>

\* pool.get_connection() raised PoolError, an Error: the queue is empty.
\* The operation reports it and returns
Exhausted(op) ==
    /\ holder = "none"
    /\ free[PoolOf(op)] = 0
    /\ refused < MaxRefused
    /\ refused' = refused + 1
    /\ UNCHANGED <<free, holder, connected, legacy>>
    /\ UNCHANGED <<sinkVars, harvVars, orchVars, flatVars, detVars, statVars,
                   pageVars, bootVars>>

\* the server went away under the connection held
ConnectionLost ==
    /\ holder # "none"
    /\ connected
    /\ connected' = FALSE
    /\ UNCHANGED <<free, holder, refused, legacy>>
    /\ UNCHANGED <<sinkVars, harvVars, orchVars, flatVars, detVars, statVars,
                   pageVars, bootVars>>

\* cn.close(): the connection goes back to the queue of its pool
Release(op) == free' = [free EXCEPT ![PoolOf(op)] = @ + 1]

\* the tables after the statements of op ran to the end:
\* verify_database_connection drops the table it finds and creates it anew,
\* save_to_database upserts into it, CREATE TABLE IF NOT EXISTS raw_source
\* leaves raw_pistonheads_db and raw_aa_db alone
Provisioned(op) ==
    IF op \in VerifyOps
    THEN {[legacy EXCEPT ![TableOf(op)] = Created]}
    ELSE IF op = "pistonheads.save_to_database"
    THEN {[legacy EXCEPT ![TableOf(op)].rows = @ \cup {u}] : u \in LegacyUrls}
    ELSE {legacy}

\* the tables when a statement of op raised: DROP TABLE commits on its own,
\* so verify_database_connection may have dropped the table already
HalfProvisioned(op) ==
    IF op \in VerifyOps
    THEN {legacy, [legacy EXCEPT ![TableOf(op)] = Absent]}
    ELSE {legacy}

\* the normal return: cur.close(), cn.close()
ReturnOk(op) ==
    /\ holder = op
    /\ connected
    /\ op = "pistonheads.save_to_database" => legacy[TableOf(op)].exists
    /\ legacy' \in Provisioned(op)
    /\ Release(op)
    /\ holder' = "none"
    /\ UNCHANGED <<connected, refused>>
    /\ UNCHANGED <<sinkVars, harvVars, orchVars, flatVars, detVars, statVars,
                   pageVars, bootVars>>

\* the except clause (and the finally clause of the standalone scrapers)
ReturnError(op) ==
    /\ holder = op
    /\ legacy' \in HalfProvisioned(op)
    /\ IF ClosesOnError(op, connected) THEN Release(op) ELSE UNCHANGED free
    /\ holder' = "none"
    /\ connected' = TRUE
    /\ UNCHANGED refused
    /\ UNCHANGED <<sinkVars, harvVars, orchVars, flatVars, detVars, statVars,
                   pageVars, bootVars>>

PoolNext ==
    \/ \E op \in PoolOps :
          \/ Checkout(op)
          \/ Exhausted(op)
          \/ ReturnOk(op)
          \/ ReturnError(op)
    \/ ConnectionLost

PoolInit == StorageInit /\ HarvestIdle /\ OrchIdle /\ AuxIdle

PoolSpec == PoolInit /\ [][PoolNext]_vars

----------------------------------------------------------------------------
(***************************************************************************)
(* get_stats_by_source (db_helper.py 610-653) over a stored table.  Time   *)
(* is counted in hours here.                                               *)
(***************************************************************************)
Window == 24

\* SELECT source, COUNT(*) ... GROUP BY source, then dict(cur.fetchall()):
\* a key for each source that has a row among rws, none for the others
CountBySource(rws) ==
    [sr \in {r.source : r \in rws} |->
        Cardinality({r \in rws : r.source = sr})]

\* the three queries of lines 617-642 and the dict of lines 647-651
get_stats_by_source(tbl, t) ==
    LET all == BagToSet(tbl)
        recent == {r \in all : r.created_at >= t - Window}
    IN  [total |-> Cardinality(all),
         by_source |-> CountBySource(all),
         last_24h |-> CountBySource(recent)]

\* the tables of the query: per key no row, or a row created at one of two
\* hours; rows differ in their keys, as the UNIQUE KEY has it
StatSources == {"cazoo", "gumtree"}
StatUrls == {Ua, Ub}
StatCreated == {0, 30}
StatNows == {30, 48, 60}
StatRow(sr, url, t) ==
    [source |-> sr, listing_url |-> url, raw_json |-> RecordOf(url),
     created_at |-> t, updated_at |-> t]
StatTables ==
    {SetToBag({StatRow(k[1], k[2], c[k]) : k \in keys}) :
        keys \in SUBSET (StatSources \X StatUrls),
        c \in [StatSources \X StatUrls -> StatCreated]}

\* run_all.py 253: the call
GetStatsCall ==
    /\ spc = "idle"
    /\ spc' = "call"
    /\ UNCHANGED stats
    /\ UNCHANGED <<sinkVars, harvVars, orchVars, poolVars, flatVars, detVars,
                   pageVars, bootVars>>

\* lines 617-651: the three queries ran
GetStatsOk ==
    /\ spc = "call"
    /\ pool
    /\ stats' = get_stats_by_source(table, now)
    /\ spc' = "returned"
    /\ UNCHANGED <<sinkVars, harvVars, orchVars, poolVars, flatVars, detVars,
                   pageVars, bootVars>>

\* lines 612-613, 651-653: no pool, or a query raised Error: {} is returned
GetStatsFails ==
    /\ spc = "call"
    /\ stats' = EmptyDict
    /\ spc' = "returned"
    /\ UNCHANGED <<sinkVars, harvVars, orchVars, poolVars, flatVars, detVars,
                   pageVars, bootVars>>

StatsNext == GetStatsCall \/ GetStatsOk \/ GetStatsFails

StatsInit ==
    /\ table \in StatTables
    /\ now \in StatNows
    /\ txn = [p \in Sessions |-> EmptyTxn]
    /\ pool \in BOOLEAN
    /\ pc = [p \in Sessions |-> "idle"]
    /\ records = [p \in Sessions |-> <<>>]
    /\ source = [p \in Sessions |-> ""]
    /\ i = [p \in Sessions |-> 0]
    /\ cn = [p \in Sessions |-> "unset"]
    /\ inserted_count = [p \in Sessions |-> 0]
    /\ updated_count = [p \in Sessions |-> 0]
    /\ error_count = [p \in Sessions |-> 0]
    /\ calls = [p \in Sessions |-> 0]
    /\ HarvestIdle /\ OrchIdle /\ AuxIdle

StatsSpec == StatsInit /\ [][StatsNext]_vars

----------------------------------------------------------------------------
(***************************************************************************)
(* flatten over the rows of a scraper (run_all.py 57-81, 141, 184, 227).   *)
(***************************************************************************)
\* flatten(r) runs for the record at hand
Flatten ==
    /\ fpc = "call"
    /\ flattened' = flatten(nested)
    /\ fpc' = "returned"
    /\ UNCHANGED nested
    /\ UNCHANGED <<sinkVars, harvVars, orchVars, poolVars, detVars, statVars,
                   pageVars, bootVars>>

\* the comprehension moves to the next row
NextRecord ==
    /\ fpc = "returned"
    /\ nested' \in NestedRecords
    /\ fpc' = "call"
    /\ UNCHANGED flattened
    /\ UNCHANGED <<sinkVars, harvVars, orchVars, poolVars, detVars, statVars,
                   pageVars, bootVars>>

FlattenNext == Flatten \/ NextRecord

FlattenInit ==
    /\ StorageInit /\ HarvestIdle /\ OrchIdle /\ PoolIdle /\ DetailIdle
    /\ StatsIdle /\ PageIdle /\ BootIdle
    /\ nested \in NestedRecords
    /\ flattened = EmptyDict
    /\ fpc = "call"

FlattenSpec == FlattenInit /\ [][FlattenNext]_vars

----------------------------------------------------------------------------
(***************************************************************************)
(* The standalone main of scrapers/pistonheads_scraper.py (570-663), which *)
(* mainpiston.py 425-517 repeats line for line: process after process,     *)
(* one action per turn of the page loop.                                   *)
(***************************************************************************)
\* lines 308-310
PhSave(pr) == [exists |-> TRUE, data |-> pr]

\* lines 301-306
PhLoad(f) == IF f.exists THEN f.data ELSE PhDefault

\* the process is gone, and its memory with it
PhEnds ==
    /\ ph_pc' = "stopped"
    /\ ph_progress' = PhDefault
    /\ ph_start_page' = 0
    /\ total_scraped' = 0
    /\ end_page' = 0
    /\ current_page' = 0
    /\ all_results' = 0
    /\ page_log' = <<>>

PhLogged(how) == page_log' = Append(page_log, [page |-> current_page, how |-> how])

\* lines 579-597: a process starts and loads the progress file
PhStart ==
    /\ ph_pc = "stopped"
    /\ ph_runs < MaxPhRuns
    /\ ph_runs' = ph_runs + 1
    /\ ph_progress' = PhLoad(ph_file)
    /\ ph_start_page' = PhLoad(ph_file).start_page
    /\ total_scraped' = PhLoad(ph_file).total_scraped
    /\ end_page' = PhLoad(ph_file).start_page + PhBatchPages - 1
    /\ current_page' = PhLoad(ph_file).start_page
    /\ all_results' = 0
    /\ page_log' = <<>>
    /\ ph_pc' = "loop"
    /\ UNCHANGED ph_file
    /\ UNCHANGED <<sinkVars, harvVars, orchVars, poolVars, flatVars, detVars,
                   statVars, bootVars>>

\* lines 599-607: the search page gave no listing URL, or its fetch failed
PageEmpty ==
    /\ ph_pc = "loop" /\ current_page <= end_page
    /\ PhLogged("empty")
    /\ current_page' = current_page + 1
    /\ UNCHANGED <<ph_file, ph_progress, ph_pc, ph_start_page, total_scraped,
                   end_page, all_results, ph_runs>>
    /\ UNCHANGED <<sinkVars, harvVars, orchVars, poolVars, flatVars, detVars,
                   statVars, bootVars>>

\* lines 602-635, 641-644: extract_listings_and_next_page or save_results
\* raised; the except clause prints and the loop goes on.  When
\* save_results raised, all_results has the page's records already
PageRaises ==
    /\ ph_pc = "loop" /\ current_page <= end_page
    /\ \E n \in 0..MaxFound : all_results' = all_results + n
    /\ PhLogged("raised")
    /\ current_page' = current_page + 1
    /\ UNCHANGED <<ph_file, ph_progress, ph_pc, ph_start_page, total_scraped,
                   end_page, ph_runs>>
    /\ UNCHANGED <<sinkVars, harvVars, orchVars, poolVars, flatVars, detVars,
                   statVars, bootVars>>

\* lines 637-638: the two assignments that follow a processed page
PageDone(pr, n) ==
    [pr EXCEPT !.last_successful_page = current_page,
               !.total_scraped = total_scraped + all_results + n]

\* lines 602-639: the page gave listing URLs, their details were read, the
\* records saved and the progress written
PageOk ==
    /\ ph_pc = "loop" /\ current_page <= end_page
    /\ \E n \in 0..MaxFound :
        /\ all_results' = all_results + n
        /\ ph_progress' = PageDone(ph_progress, n)
        /\ ph_file' = PhSave(PageDone(ph_progress, n))
    /\ PhLogged("ok")
    /\ current_page' = current_page + 1
    /\ UNCHANGED <<ph_pc, ph_start_page, total_scraped, end_page, ph_runs>>
    /\ UNCHANGED <<sinkVars, harvVars, orchVars, poolVars, flatVars, detVars,
                   statVars, bootVars>>

\* lines 637-644: as PageOk, but open() in save_progress raised OSError;
\* the except clause prints and the loop goes on
PageSaveRaises ==
    /\ ph_pc = "loop" /\ current_page <= end_page
    /\ \E n \in 0..MaxFound :
        /\ all_results' = all_results + n
        /\ ph_progress' = PageDone(ph_progress, n)
    /\ PhLogged("raised")
    /\ current_page' = current_page + 1
    /\ UNCHANGED <<ph_file, ph_pc, ph_start_page, total_scraped, end_page,
                   ph_runs>>
    /\ UNCHANGED <<sinkVars, harvVars, orchVars, poolVars, flatVars, detVars,
                   statVars, bootVars>>

\* lines 649-663: the loop is over; start_page moves on and is written
PhFinish ==
    /\ ph_pc = "loop" /\ current_page > end_page
    /\ ph_file' = PhSave([ph_progress EXCEPT !.start_page = end_page + 1])
    /\ PhEnds
    /\ UNCHANGED ph_runs
    /\ UNCHANGED <<sinkVars, harvVars, orchVars, poolVars, flatVars, detVars,
                   statVars, bootVars>>

\* the process is killed, or save_progress raised at line 659
PhCrash ==
    /\ ph_pc = "loop"
    /\ PhEnds
    /\ UNCHANGED <<ph_file, ph_runs>>
    /\ UNCHANGED <<sinkVars, harvVars, orchVars, poolVars, flatVars, detVars,
                   statVars, bootVars>>

PageNext ==
    \/ PhStart
    \/ PageEmpty
    \/ PageRaises
    \/ PageOk
    \/ PageSaveRaises
    \/ PhFinish
    \/ PhCrash

PageInit ==
    /\ StorageInit /\ HarvestIdle /\ OrchIdle
    /\ AuxIdle

PageSpec == PageInit /\ [][PageNext]_vars

----------------------------------------------------------------------------
(***************************************************************************)
(* The import of db_helper.py (448-469): create_pool, the assignment of    *)
(* the module-level pool, and the helpers called afterwards.               *)
(***************************************************************************)
\* what a helper returns at its `if not pool:` (473-475, 522-524, 612-613,
\* 657-658)
NoPoolResult(op) ==
    CASE op = "ensure_raw_source_table_exists" -> "False"
      [] op = "save_to_raw_source" -> "None"
      [] op = "get_stats_by_source" -> EmptyMapping
      [] OTHER -> "[]"

SinkAtRest ==
    UNCHANGED <<table, txn, now, pc, records, source, i, cn, inserted_count,
                updated_count, error_count, calls>>

BootFrame ==
    UNCHANGED <<harvVars, orchVars, poolVars, flatVars, detVars, statVars,
                pageVars>>

\* lines 448-450, 465: create_pool is called
CreatePool ==
    /\ bpc = "import"
    /\ retries' \in 1..DefaultRetries
    /\ attempt' = 0
    /\ bpc' = "attempt"
    /\ UNCHANGED <<tried, slept, raised, op_result, pool>>
    /\ SinkAtRest /\ BootFrame

\* lines 451-454, 465-466: the pool is built, returned and assigned
AttemptOk ==
    /\ bpc = "attempt" /\ attempt < retries
    /\ tried' = tried + 1
    /\ pool' = TRUE
    /\ bpc' = "done"
    /\ UNCHANGED <<retries, attempt, slept, raised, op_result>>
    /\ SinkAtRest /\ BootFrame

\* a faulty handler that waits after the last attempt as well
AttemptFails_AlwaysSleeps ==
    /\ bpc = "attempt" /\ attempt < retries
    /\ tried' = tried + 1
    /\ bpc' = "sleep"
    /\ UNCHANGED <<retries, attempt, slept, raised, op_result, pool>>
    /\ SinkAtRest /\ BootFrame

\* lines 455-460, 467-469: the constructor raised Error; either the wait
\* is next, or the raise, which the module catches to set pool = None
AttemptFails ==
    /\ bpc = "attempt" /\ attempt < retries
    /\ tried' = tried + 1
    /\ IF attempt < retries - 1
       THEN /\ bpc' = "sleep"
            /\ UNCHANGED <<raised, pool>>
       ELSE /\ bpc' = "done"
            /\ raised' = TRUE
            /\ pool' = FALSE
    /\ UNCHANGED <<retries, attempt, slept, op_result>>
    /\ SinkAtRest /\ BootFrame

\* line 458 and the next turn of the for loop
RetrySleep ==
    /\ bpc = "sleep"
    /\ slept' = slept + 1
    /\ attempt' = attempt + 1
    /\ bpc' = "attempt"
    /\ UNCHANGED <<retries, tried, raised, op_result, pool>>
    /\ SinkAtRest /\ BootFrame

\* a helper is called while pool is None
OpWithoutPool ==
    /\ bpc = "done"
    /\ ~pool
    /\ \E op \in HelperOps :
          op_result' = [op |-> op, value |-> NoPoolResult(op)]
    /\ UNCHANGED <<retries, attempt, bpc, tried, slept, raised, pool>>
    /\ SinkAtRest /\ BootFrame

\* save_to_raw_source and get_stats_by_source as the other sections have
\* them, called once the import is over
Served ==
    /\ bpc = "done"
    /\ \/ Call("s1", {<<RecFord, RecNoUrl>>}, SinkSources, 1)
       \/ CallReturnsEarly("s1", 1)
       \/ SinkStep("s1")
       \/ GetStatsCall
       \/ GetStatsOk
       \/ GetStatsFails

ImportNext ==
    \/ CreatePool
    \/ AttemptOk
    \/ AttemptFails
    \/ RetrySleep
    \/ OpWithoutPool
    \/ Served

ImportInit ==
    /\ StorageInit /\ ~pool
    /\ HarvestIdle /\ OrchIdle
    /\ PoolIdle /\ FlatIdle /\ DetailIdle /\ StatsIdle /\ PageIdle
    /\ retries = 0
    /\ attempt = 0
    /\ bpc = "import"
    /\ tried = 0
    /\ slept = 0
    /\ raised = FALSE
    /\ op_result = NoResult

ImportSpec == ImportInit /\ [][ImportNext]_vars

----------------------------------------------------------------------------
(***************************************************************************)
(* Claims about the standalone main.                                       *)
(***************************************************************************)
\* the last page this run has logged
LastLogged(log) == log[Len(log)]

\* C35: while a run of the standalone main lasts, last_successful_page
\* never goes down; a step that changes it sets it to the page of the
\* turn, a page of start_page..end_page that gave listing URLs and whose
\* turn raised nothing; and start_page changes only in the file, to
\* end_page + 1, by the step that follows the last turn of the loop
PageCheckpoint ==
    [][ph_pc = "loop" =>
          /\ ph_pc' = "loop" =>
                /\ ph_progress'.last_successful_page
                     >= ph_progress.last_successful_page
                /\ ph_progress'.start_page = ph_progress.start_page
                /\ ph_progress'.last_successful_page
                     # ph_progress.last_successful_page =>
                       /\ ph_progress'.last_successful_page = current_page
                       /\ current_page \in ph_start_page..end_page
                       /\ LastLogged(page_log') =
                              [page |-> current_page, how |-> "ok"]
          /\ ph_file'.data.last_successful_page
               # ph_file.data.last_successful_page =>
                 LastLogged(page_log') = [page |-> current_page, how |-> "ok"]
          /\ ph_file'.data.start_page # ph_file.data.start_page =>
                /\ current_page > end_page
                /\ ph_file'.data.start_page = end_page + 1
      ]_vars

----------------------------------------------------------------------------
(***************************************************************************)
(* Claims about the import of db_helper.py.                                *)
(***************************************************************************)
\* C36: create_pool has tried tried times, never more than retries; it
\* has slept once after every failed attempt but the last; it is over
\* with a pool after an attempt that succeeded, or without one, by its
\* raise, after retries failed attempts; and without a pool the table, the
\* transaction and the connection of the session are untouched, no
\* statistics were read, and a helper returned its empty value
RetryContract ==
    /\ tried <= retries
    /\ bpc = "attempt" => (tried = attempt /\ slept = attempt)
    /\ bpc = "sleep" =>
          (tried = attempt + 1 /\ slept = attempt /\ attempt < retries - 1)
    /\ bpc \in {"import", "attempt", "sleep"} => (~pool /\ ~raised)
    /\ (bpc = "done" /\ tried > 0) =>
          /\ slept = tried - 1
          /\ pool <=> ~raised
          /\ ~pool => tried = retries
    /\ (bpc = "done" /\ tried > 0 /\ ~pool) =>
          /\ table = EmptyBag
          /\ txn["s1"] = EmptyTxn
          /\ pc["s1"] = "idle"
          /\ cn["s1"] = "unset"
          /\ stats = EmptyDict
          /\ op_result # NoResult =>
                op_result.value = NoPoolResult(op_result.op)

\* C36 witness: three attempts failed with two waits between them, and
\* then a save, the statistics and a sample were asked for
PoolNeverCreated ==
    /\ bpc = "done" /\ ~pool /\ raised
    /\ retries = DefaultRetries
    /\ tried = DefaultRetries
    /\ slept = DefaultRetries - 1
    /\ calls["s1"] = 1
    /\ spc = "returned"
    /\ op_result.op = "get_raw_source_sample"

----------------------------------------------------------------------------
(***************************************************************************)
(* Claims about the storage layer.                                         *)
(***************************************************************************)
RowsWithKey(b, key) == {r \in BagToSet(b) : RowKey(r) = key}

\* every row once, and no two rows with one (source, listing_url)
UniqueKeys(b) ==
    /\ \A r \in BagToSet(b) : CopiesIn(r, b) = 1
    /\ \A r1, r2 \in BagToSet(b) : RowKey(r1) = RowKey(r2) => r1 = r2

\* C3: an executed upsert of record R leaves exactly one row for
\* (source, R.listing_url), holding R as its payload and stamped with the
\* current time; when the key was already stored the number of rows and the
\* row's created_at are unchanged, and when the stored payload was already R
\* the table differs from the one before in that row's updated_at at most.
IdempotentUpsert ==
    [][\A p \in Sessions :
        ExecOk(p) =>
            LET key == KeyOf(source[p], ListingUrl(p))
                before == RowsWithKey(View(p), key)
                after == RowsWithKey(ViewOf(table', txn'[p]), key)
            IN  /\ Cardinality(after) = 1
                /\ \A n \in after :
                    /\ CopiesIn(n, ViewOf(table', txn'[p])) = 1
                    /\ n.raw_json = records[p][i[p]]
                    /\ n.updated_at = now
                    /\ \A o \in before :
                        /\ n.created_at = o.created_at
                        /\ BagCardinality(ViewOf(table', txn'[p])) = BagCardinality(View(p))
                        /\ o.raw_json = records[p][i[p]] =>
                             ViewOf(table', txn'[p]) =
                                 (View(p) (-) SetToBag({o}))
                                     (+) SetToBag({[o EXCEPT !.updated_at = now]})
      ]_vars

\* C3 witness: a transaction holds the second upsert of an unchanged record,
\* made at a later time than the first
SecondUpsertOfSameRecord ==
    \E p \in Sessions :
        \E o \in BagToSet(txn[p].del), n \in BagToSet(txn[p].add) :
            /\ RowKey(o) = RowKey(n)
            /\ o.raw_json = n.raw_json
            /\ o.created_at = n.created_at
            /\ n.updated_at > o.updated_at

\* all rows, committed or written by an open transaction
AllRows ==
    LET Pending(p) == txn[p] IN
    (table (-) (Pending("s1").del (+) Pending("s2").del))
        (+) (Pending("s1").add (+) Pending("s2").add)

\* C4: whatever the interleaving of the sessions' statements, no two rows
\* share a (source, listing_url): not among the committed rows, not in what
\* any session reads, not among the rows of all open transactions together.
UniqueListing ==
    /\ UniqueKeys(table)
    /\ \A p \in Sessions : UniqueKeys(View(p))
    /\ UniqueKeys(AllRows)

\* C4 witness: two sessions are inside their record loops at once, one has
\* written a key and not committed, the other's next record has that key
ContendedKey ==
    \E p \in Sessions :
        /\ InLoop(p)
        /\ ListingUrl(p) # EmptyStr
        /\ Locked(p, KeyOf(source[p], ListingUrl(p)))

\* C5 (as claimed): a committed row whose make is set keeps a make through
\* every later upsert of its key
NonRegression ==
    [][\A r \in BagToSet(table) :
          MakeColumn(r) # Null =>
              \A r2 \in RowsWithKey(table', RowKey(r)) : MakeColumn(r2) # Null
      ]_vars

\* C6 (as claimed): two stored rows of one source never differ only in the
\* query string or fragment of their listing_url
CanonicalKey ==
    \A r1, r2 \in BagToSet(table) :
        (Fold(r1.source) = Fold(r2.source)
            /\ CleanUrl(r1.listing_url) = CleanUrl(r2.listing_url)) => r1 = r2

\* C33: once the record loop of a save_to_raw_source call is through, the
\* three counters of the call add up to the number of records it was given
CountersAddUp ==
    \A p \in Sessions :
        (pc[p] = "loop" /\ i[p] > Len(records[p])) =>
            inserted_count[p] + updated_count[p] + error_count[p]
                = Len(records[p])

\* C12: an executed upsert whose key is absent from what the session reads
\* adds one to inserted_count and leaves updated_count; one whose key is
\* present adds one to updated_count and leaves inserted_count
UpsertStatistics ==
    [][\A p \in Sessions :
        ExecOk(p) =>
            IF RowsWithKey(View(p), KeyOf(source[p], ListingUrl(p))) = {}
            THEN /\ inserted_count'[p] = inserted_count[p] + 1
                 /\ updated_count'[p] = updated_count[p]
            ELSE /\ updated_count'[p] = updated_count[p] + 1
                 /\ inserted_count'[p] = inserted_count[p]
      ]_vars

\* C13: a record without listing_url, or with an empty one, is skipped: it
\* adds one to error_count, writes nothing, and the loop goes on to the next
\* record; no row, committed or pending, has an empty listing_url
NoUrlSkipped ==
    [][/\ \A p \in Sessions :
            (InLoop(p) /\ ListingUrl(p) = EmptyStr /\ i'[p] # i[p]) =>
                /\ error_count'[p] = error_count[p] + 1
                /\ inserted_count'[p] = inserted_count[p]
                /\ updated_count'[p] = updated_count[p]
                /\ table' = table
                /\ txn'[p] = txn[p]
                /\ i'[p] = i[p] + 1
                /\ pc'[p] = "loop"
       /\ \A p \in Sessions :
            \A r \in BagToSet(ViewOf(table', txn'[p])) : r.listing_url # EmptyStr
      ]_vars

\* C13 witness: the first record of a batch had no listing_url and the
\* second has been stored
SkippedThenStored ==
    \E p \in Sessions :
        /\ pc[p] = "loop"
        /\ i[p] = 3
        /\ Get(records[p][1], "listing_url", EmptyStr) = EmptyStr
        /\ error_count[p] = 1
        /\ inserted_count[p] = 1

\* C14: at every point of a batch a session has at most 50 - 1 = 49
\* records executed and not committed
CommitBatching ==
    \A p \in Sessions : BagCardinality(txn[p].add) <= CommitEvery - 1

\* the keys a session reads
KeysOf(b) == {RowKey(r) : r \in BagToSet(b)}

\* C15: a record of the batch loop, failed or not, adds at most one to
\* error_count and moves the loop to the next record, never out of the
\* batch; a failed record leaves every row the session had written readable;
\* and the commit that ends the call makes exactly those rows the table
PerRecordFailure ==
    [][\A p \in Sessions :
        /\ (InLoop(p) /\ i'[p] # i[p]) =>
              /\ i'[p] = i[p] + 1
              /\ pc'[p] = "loop"
              /\ records'[p] = records[p]
              /\ error_count'[p] \in {error_count[p], error_count[p] + 1}
              /\ error_count'[p] = error_count[p] + 1 =>
                    KeysOf(View(p)) \subseteq KeysOf(ViewOf(table', txn'[p]))
        /\ (pc[p] = "loop" /\ pc'[p] = "idle" /\ table' # table) =>
              table' = View(p)
      ]_vars

\* C15 witness: the statement of the first record raised, the second record
\* has been stored, and the call has not committed yet
FailedThenStored ==
    \E p \in Sessions :
        /\ pc[p] = "loop"
        /\ i[p] = 3
        /\ error_count[p] = 1
        /\ Get(records[p][1], "listing_url", EmptyStr) # EmptyStr
        /\ KeysOf(txn[p].add) =
              {KeyOf(source[p], Get(records[p][2], "listing_url", EmptyStr))}
        /\ KeyOf(source[p], Get(records[p][1], "listing_url", EmptyStr))
              \notin KeysOf(View(p))

----------------------------------------------------------------------------
(***************************************************************************)
(* Claims about the detail loop.                                           *)
(***************************************************************************)
\* C22: what run_cazoo returns is the list of the records it extracted
ReturnsAllExtracted ==
    dpc = "returned" => result = extracted

\* the lists of a list of lists, one after the other
RECURSIVE Concat(_)
Concat(lists) ==
    IF lists = <<>> THEN <<>> ELSE Head(lists) \o Concat(Tail(lists))

PerUrlFailure ==
    /\ dpc # "idle" =>
          /\ Len(fetch_log) <= Len(car_listing_urls)
          /\ fetch_log = SubSeq(car_listing_urls, 1, Len(fetch_log))
          /\ Len(extracted) <= Len(fetch_log)
    /\ dpc \in {"fetch", "pause", "final"} =>
          Concat(handed) \o drows = extracted
    /\ dpc = "fetch" => naps = Len(fetch_log) /\ di = Len(fetch_log) + 1
    /\ dpc \in {"final", "returned"} =>
          Len(fetch_log) = Len(car_listing_urls)

\* C29 witness: the second of three URLs gave no record, a sleep followed,
\* and the third URL has been extracted to a record; the first record is
\* still in rows
FailedUrlThenRecord ==
    /\ dpc = "final"
    /\ Len(car_listing_urls) = 3
    /\ naps = 2
    /\ drows = <<RecordOf(car_listing_urls[1]), RecordOf(car_listing_urls[3])>>

----------------------------------------------------------------------------
(***************************************************************************)
(* Claims about the statistics.                                            *)
(***************************************************************************)
\* C24: the last_24h of a statistics dict has, for every source with rows
\* in the table, the number of its rows created within the last 24 hours,
\* 0 when there is none
Last24hExact ==
    (spc = "returned" /\ stats # EmptyDict) =>
        \A sr \in {r.source : r \in BagToSet(table)} :
            /\ sr \in DOMAIN stats.last_24h
            /\ stats.last_24h[sr] =
                  Cardinality({r \in BagToSet(table) :
                                  r.source = sr /\ now - r.created_at <= Window})

----------------------------------------------------------------------------
(***************************************************************************)
(* Claims about the pools and the schema.                                  *)
(***************************************************************************)
\* C16: whenever no operation is running, every connection of every pool is
\* back in the queue of its pool: each checkout was released on the exit
\* path the operation took
ConnectionsReleased ==
    holder = "none" => \A q \in Pools : free[q] = PoolSize(q)

\* C17: the step that ends verify_database_connection or
\* ensure_raw_source_table_exists leaves every row of every table in place
SchemaAdditive ==
    [][(holder \in VerifyOps \cup {"ensure_raw_source_table_exists"}
          /\ holder' = "none") =>
            /\ BagToSet(table) \subseteq BagToSet(table')
            /\ \A t \in LegacyTables :
                  legacy[t].rows \subseteq legacy'[t].rows
      ]_vars

----------------------------------------------------------------------------
(***************************************************************************)
(* Claims about the harvest.                                               *)
(***************************************************************************)
\* the search pages requested so far, in request order
RequestedPages == [k \in 1..Len(fetched) |-> fetched[k].page]

HarvestEnded == hpc \in {"returned", "extract"}

\* C8: a run_cazoo harvest with start_page s and batch_pages b has requested
\* exactly the search pages s, s+1, ..., s+b-1, in this order, when it ends
PageWindow ==
    (HarvestEnded /\ caller = "run_cazoo") =>
        RequestedPages = [k \in 1..batch_pages |-> start_page + k - 1]

\* C9: a harvest requests no further search page once two consecutive
\* requests have yielded no listing URL
EarlyStop ==
    \A k \in 3..Len(fetched) :
        ~(fetched[k - 2].found = 0 /\ fetched[k - 1].found = 0)

\* C10: the URLs handed to detail extraction are canonical and pairwise
\* different
NoDuplicateForwarded ==
    hpc = "extract" =>
        /\ \A k \in 1..Len(car_listing_urls) :
              car_listing_urls[k] = CleanUrl(car_listing_urls[k])
        /\ \A j, k \in 1..Len(car_listing_urls) :
              j # k => car_listing_urls[j] # car_listing_urls[k]

\* the links found by the requests before the k-th
RECURSIVE FoundBefore(_)
FoundBefore(k) ==
    IF k <= 1 THEN 0 ELSE FoundBefore(k - 1) + fetched[k - 1].found

\* how many of the forwarded URLs come from the k-th requested page
ForwardedFrom(k) ==
    Cardinality({j \in 1..Len(car_listing_urls) :
                    FoundBefore(k) < j /\ j <= FoundBefore(k) + fetched[k].found})

\* C11: no page of a run_cazoo harvest has more than max_per_page of its
\* URLs forwarded to detail extraction
PerPageCap ==
    (hpc = "extract" /\ caller = "run_cazoo") =>
        \A k \in 1..Len(fetched) : ForwardedFrom(k) <= max_per_page

\* C28: a search-page fetch that fails does not end the harvest: the step
\* records a page with no links, adds one to consecutive_empty, as the step
\* for any page without links does, keeps the links and URLs collected so
\* far, and moves to the next page unless consecutive_empty reached 2
FailedFetchIsMiss ==
    [][(hpc = "harvest" /\ Len(fetched') = Len(fetched) + 1) =>
          LET failed == ~site[CurrentUrl(search_url, page)].success
              miss == fetched'[Len(fetched')].found = 0
          IN  /\ failed => miss
              /\ miss => /\ consecutive_empty' = consecutive_empty + 1
                         /\ all_links' = all_links
              /\ failed => /\ hpc' = "harvest"
                           /\ urls' = urls
                           /\ car_listing_urls' = car_listing_urls
                           /\ consecutive_empty' < 2 => page' = page + 1
                           /\ LoopCond' <=> (page' <= max_pages
                                               /\ consecutive_empty' < 2)
      ]_vars

\* a failed fetch came after a page with links and the harvest went on to
\* the next page with those links kept
FailedThenNextPage ==
    /\ caller = "direct"
    /\ Len(fetched) = 3
    /\ fetched[1].found > 0
    /\ ~site[fetched[2].page].success
    /\ Len(all_links) >= fetched[1].found

\* C27: every fetch of a search page that was followed by another fetch
\* was followed by a sleep first
EveryFetchPaced ==
    \A k \in 1..(Len(fetched) - 1) : fetched[k].paced

----------------------------------------------------------------------------
(***************************************************************************)
(* Claims about the flattener.                                             *)
(***************************************************************************)
\* the columns other than listing_url, each with the group and the key of
\* the nested record it is read from
ColumnSource ==
    [k \in VehicleKeys |-> <<"vehicle", k>>] @@
    [dealer_name |-> <<"dealer", "name">>,
     dealer_phone |-> <<"dealer", "phone">>,
     dealer_location |-> <<"dealer", "location">>,
     dealer_city |-> <<"dealer", "city">>]

\* does rec hold a value for the column
HasValue(rec, col) ==
    /\ ColumnSource[col][1] \in DOMAIN rec
    /\ ColumnSource[col][2] \in DOMAIN rec[ColumnSource[col][1]]

\* the value rec holds for a column it has a value for
ValueOf(rec, col) == rec[ColumnSource[col][1]][ColumnSource[col][2]]

\* C20: what flatten returns has no key outside listing_url and the
\* columns, no value that is None, '' or {}; it has listing_url exactly when
\* the record has a non-empty one, and a column exactly when the record
\* holds a value for it that is none of None, '' and {}; and each value is
\* the record's
FlattenContract ==
    fpc = "returned" =>
        /\ DOMAIN flattened \subseteq DOMAIN ColumnSource \cup {"listing_url"}
        /\ "listing_url" \in DOMAIN flattened <=>
              /\ "listing_url" \in DOMAIN nested
              /\ nested.listing_url # EmptyStr
        /\ "listing_url" \in DOMAIN flattened =>
              flattened.listing_url = nested.listing_url
        /\ \A col \in DOMAIN ColumnSource :
              /\ col \in DOMAIN flattened <=>
                    /\ HasValue(nested, col)
                    /\ ValueOf(nested, col) # Null
                    /\ ValueOf(nested, col) # ""
                    /\ ValueOf(nested, col) # EmptyMapping
              /\ col \in DOMAIN flattened =>
                    flattened[col] = ValueOf(nested, col)

\* C20 witness: a record with a URL, a make, a blank model, an attribute
\* outside the columns and a None dealer name has been flattened to its URL
\* and its make
FlattenedMixed ==
    /\ fpc = "returned"
    /\ DOMAIN nested = {"listing_url", "vehicle", "dealer"}
    /\ nested.vehicle = [make |-> "Ford", model |-> ""]
    /\ nested.dealer = [name |-> Null]
    /\ DOMAIN flattened = {"listing_url", "make"}

----------------------------------------------------------------------------
(***************************************************************************)
(* Claims about the orchestrator.                                          *)
(***************************************************************************)
\* C1: a section advances its entry of progress only after a save that
\* reached the database, committed, and stored every record of the batch
CheckpointGated ==
    [][(opc = "update" /\ opc' = "next" /\ progress' # progress)
          => save_status = "complete"]_vars

\* C2: the run that follows a run killed between the upsert of a source's
\* batch and the write of the progress file computes, for that source, the
\* page range the killed run computed; and saving the batch the killed run
\* had stored leaves the number of rows of raw_source unchanged
CrashSafety ==
    [][/\ (opc' # "stopped" /\ interrupted'[Sources[section']] # <<>>) =>
            /\ main_start_page' = interrupted'[Sources[section']][1].start
            /\ main_end_page' = interrupted'[Sources[section']][1].end
       /\ (/\ opc = "saving"
           /\ interrupted[Current] # <<>>
           /\ flat = interrupted[Current][1].batch) =>
            BagCardinality(table') = BagCardinality(table)]_vars

\* the batch a killed run had stored has been saved again by the next run
ReUpsertAfterCrash ==
    /\ opc = "update"
    /\ save_status = "complete"
    /\ interrupted[Current] # <<>>
    /\ flat = interrupted[Current][1].batch
    /\ main_start_page = interrupted[Current][1].start

\* C7: a section computes start_page = last_page + 1 and end_page =
\* start_page + pages_per_run - 1 and, when it advances, sets last_page to
\* end_page; after N advances from the zero checkpoint last_page = 3 * N, in
\* memory and in the progress file
CheckpointArithmetic ==
    /\ \A s \in SourceNames :
          load_progress(file)[s].last_page = PagesPerRun * persisted[s]
    /\ opc # "stopped" =>
          /\ \A s \in SourceNames :
                progress[s].last_page = PagesPerRun * successes[s]
          /\ main_end_page = main_start_page + PagesPerRun - 1
          /\ IF opc = "next"
             THEN progress[Current].last_page \in
                      {main_start_page - 1, main_end_page}
             ELSE progress[Current].last_page = main_start_page - 1

\* C21: a run goes through its sections one after the other whatever
\* happened in them; a section touches no checkpoint but its own; and a run
\* that is not killed ends after the last section, by writing the progress
\* dict to the file
FailureIsolation ==
    [][/\ (opc # "stopped" /\ opc' # "stopped" /\ section' # section) =>
              section' = section + 1
       /\ (opc # "stopped" /\ opc' # "stopped") =>
              \A s \in SourceNames \ {Current} : progress'[s] = progress[s]
       /\ (opc = "scrape" /\ opc' = "next") =>
              progress' = progress
       /\ (opc # "stopped" /\ opc' = "stopped") =>
              \/ Crash
              \/ CrashInSave
              \/ /\ section = Len(Sources)
                 /\ file' = save_progress(progress)
      ]_vars

\* C21 witness: a cycle whose first section failed has been written to the
\* file with the checkpoint of the second source advanced
FailedThenOthersRan ==
    /\ opc = "stopped"
    /\ runs = 1
    /\ file.parses
    /\ file.data["pistonheads"] = ZeroEntry
    /\ file.data["aa"].last_page = PagesPerRun
    /\ file.data["cazoo"].last_page = PagesPerRun

\* C23: the step by which a section adds to total_listings adds nothing
\* when the save before it stored nothing (no connection, or rolled back),
\* and less than the length of the batch when the save skipped or failed
\* one of its records
TotalListingsPersisted ==
    [][(opc = "update" /\ opc' = "next") =>
         LET added == progress'[Current].total_listings
                        - progress[Current].total_listings
         IN  /\ save_status \in {"unreachable", "rolled_back"} => added = 0
             /\ save_status = "partial" => added < Len(flat)
      ]_vars

\* the records the scrapers of a run hand back
ScrapedRecords ==
    UNION {{rs[k] : k \in 1..Len(rs)} : rs \in ScrapeResults}

\* C25: the raw_json of every row a run stored is a record as a scraper
\* handed it back, with its nested vehicle mapping, and the make column of
\* the row is that record's vehicle.make
RawPayloadStored ==
    \A r \in BagToSet(AllRows) :
        /\ r.raw_json \in ScrapedRecords
        /\ MakeColumn(r) = r.raw_json.vehicle.make

\* C31: a section whose scraper gave no rows goes on to the next section
\* with progress as it was, and the progress file a run writes at its end
\* gives every source the run did not advance the entry, and so the start
\* page, that the run loaded for it
EmptyRunKeepsCheckpoint ==
    [][/\ (opc = "scrape" /\ rows' = <<>> /\ opc' # "stopped") =>
            /\ opc' = "next"
            /\ progress' = progress
       /\ (opc = "next" /\ file' # file /\ file'.parses) =>
            \A s \in SourceNames :
                successes[s] = persisted[s] =>
                    /\ load_progress(file')[s] = load_progress(file)[s]
                    /\ StartPage(load_progress(file'), s)
                         = StartPage(load_progress(file), s)
      ]_vars

\* C31 witness: the first run found nothing for pistonheads, advanced AA
\* and wrote the file; the second run asks pistonheads for page 1 again
EmptyRunRepeated ==
    /\ runs = 2
    /\ opc = "scrape"
    /\ section = 1
    /\ main_start_page = 1
    /\ file.exists /\ file.parses
    /\ persisted["pistonheads"] = 0
    /\ persisted["aa"] = 1

\* C32: last_page equals total_pages_scraped for every source, in the
\* progress a run holds and in the progress the file gives a run
PagesInStep ==
    \A s \in SourceNames :
        /\ progress[s].last_page = progress[s].total_pages_scraped
        /\ load_progress(file)[s].last_page
             = load_progress(file)[s].total_pages_scraped

\* C32 witness: two runs have advanced AA and written the file
TwoRangesWritten ==
    /\ runs = 2
    /\ opc = "stopped"
    /\ file.parses
    /\ load_progress(file)["aa"].last_page = 2 * PagesPerRun

\* C34: the records of a section are handed to save_to_raw_source once:
\* no call enters the record loop for a section whose records an earlier
\* call of the section has stored
DeliveredOnce ==
    [][~(/\ opc = "save"
         /\ save_status = "complete"
         /\ pc["s1"] = "idle"
         /\ pc'["s1"] = "loop")
      ]_vars

\* C26: from one step to the next the checkpoints a run would load from
\* the progress file never go down: last_page, total_pages_scraped and
\* total_listings of every source
ProgressMonotone ==
    [][\A s \in SourceNames :
          LET before == load_progress(file)[s]
              after == load_progress(file')[s]
          IN  /\ after.last_page >= before.last_page
              /\ after.total_pages_scraped >= before.total_pages_scraped
              /\ after.total_listings >= before.total_listings
      ]_vars

\* C18: whatever a step does to the progress file, a load_progress that
\* follows it returns either what a load_progress before the step returned
\* or the checkpoints the process was writing
AtomicProgressWrite ==
    [][load_progress(file') \in {load_progress(file), progress}]_vars

\* C19: no run is under way while the progress file exists and does not
\* parse: the run that met the fault ended there
ProgressFaultFatal ==
    (file.exists /\ ~file.parses) => opc = "stopped"

\* every source has advanced in each of two runs that wrote the file
TwoRunsPersisted ==
    /\ opc = "stopped"
    /\ \A s \in SourceNames :
          persisted[s] = 2 /\ file.data[s].last_page = 2 * PagesPerRun

====
